---- MODULE Spec2Model ----
(***************************************************************************)
(* Model of the project inspector's analysis engine: the import resolver   *)
(* of the repo indexer, the feature grouper and the impact analyzer.       *)
(*                                                                         *)
(* A JavaScript string is a sequence of one-character strings, so that     *)
(* startsWith, replace, split and the extension regex are computed on      *)
(* characters as the code computes them.  A Map is a sequence of entries   *)
(* in insertion order (the order a for..of loop visits them).              *)
(***************************************************************************)
EXTENDS Integers, Sequences, FiniteSets, TLC

\* ------------------------------------------------------------------------
\* String primitives (String.prototype.* as used by the agents)
\* ------------------------------------------------------------------------

\* null / undefined results of string-valued functions; the callers test
\* them by truthiness, which the empty string fails as well
NULL == <<>>

Range(s) == {s[i] : i \in 1..Len(s)}

StartsWith(s, p) == Len(p) <= Len(s) /\ SubSeq(s, 1, Len(p)) = p

EndsWith(s, p) == Len(p) <= Len(s) /\ SubSeq(s, Len(s) - Len(p) + 1, Len(s)) = p

\* position of the first occurrence of p in s, 0 when there is none
IndexOf(s, p) ==
  LET hits == {i \in 1..(Len(s) - Len(p) + 1) : SubSeq(s, i, i + Len(p) - 1) = p}
  IN IF hits = {} THEN 0 ELSE CHOOSE i \in hits : \A j \in hits : i <= j

Includes(s, p) == IndexOf(s, p) # 0

\* s.replace(pat, rep) with a string pattern: the first occurrence only
ReplaceFirst(s, pat, rep) ==
  LET i == IndexOf(s, pat)
  IN IF i = 0 THEN s
     ELSE SubSeq(s, 1, i - 1) \o rep \o SubSeq(s, i + Len(pat), Len(s))

\* position of the last occurrence of character c in s, 0 when there is none
LastIndexOfChar(s, c) ==
  LET hits == {i \in 1..Len(s) : s[i] = c}
  IN IF hits = {} THEN 0 ELSE CHOOSE i \in hits : \A j \in hits : j <= i

\* s.replace(/\.[^.]+$/, ''): drop the last dot and what follows it, when at
\* least one character follows it
StripExt(s) ==
  LET i == LastIndexOfChar(s, ".")
  IN IF i # 0 /\ i < Len(s) THEN SubSeq(s, 1, i - 1) ELSE s

\* s.replace(/\/$/, ''): drop one trailing slash
StripTrailingSlash(s) ==
  IF Len(s) > 0 /\ s[Len(s)] = "/" THEN SubSeq(s, 1, Len(s) - 1) ELSE s

\* s.split(c) for a one-character separator
RECURSIVE Split(_, _)
Split(s, c) ==
  LET hits == {i \in 1..Len(s) : s[i] = c}
  IN IF hits = {} THEN <<s>>
     ELSE LET i == CHOOSE k \in hits : \A j \in hits : k <= j
          IN <<SubSeq(s, 1, i - 1)>> \o Split(SubSeq(s, i + 1, Len(s)), c)

\* array.slice(n)
SliceFrom(a, n) == SubSeq(a, n + 1, Len(a))

\* array.slice(0, n)
SliceTo(a, n) == SubSeq(a, 1, IF Len(a) < n THEN Len(a) ELSE n)

LowerChar(c) ==
  CASE c = "A" -> "a" [] c = "B" -> "b" [] c = "C" -> "c" [] c = "D" -> "d"
    [] c = "E" -> "e" [] c = "F" -> "f" [] c = "G" -> "g" [] c = "H" -> "h"
    [] c = "I" -> "i" [] c = "J" -> "j" [] c = "K" -> "k" [] c = "L" -> "l"
    [] c = "M" -> "m" [] c = "N" -> "n" [] c = "O" -> "o" [] c = "P" -> "p"
    [] c = "Q" -> "q" [] c = "R" -> "r" [] c = "S" -> "s" [] c = "T" -> "t"
    [] c = "U" -> "u" [] c = "V" -> "v" [] c = "W" -> "w" [] c = "X" -> "x"
    [] c = "Y" -> "y" [] c = "Z" -> "z" [] OTHER -> c

ToLowerCase(s) == [i \in 1..Len(s) |-> LowerChar(s[i])]

\* ------------------------------------------------------------------------
\* Feature grouper: constants
\* ------------------------------------------------------------------------

SHARED_DIRS ==
  { <<"c", "o", "m", "m", "o", "n">>, <<"s", "h", "a", "r", "e", "d">>, <<"u", "t", "i", "l", "s">>, <<"h", "e", "l", "p", "e", "r", "s">>, <<"t", "y", "p", "e", "s">>, <<"a", "s", "s", "e", "t", "s">>, <<"s", "t", "y", "l", "e", "s">>,
    <<"s", "t", "a", "t", "i", "c">>, <<"p", "u", "b", "l", "i", "c">>, <<"t", "e", "s", "t", "-", "u", "t", "i", "l", "s">>, <<"s", "u", "p", "p", "o", "r", "t">>, <<"p", "l", "u", "g", "i", "n">>, <<"p", "l", "u", "g", "i", "n", "s">>,
    <<"m", "i", "d", "d", "l", "e", "w", "a", "r", "e">>, <<"l", "a", "y", "o", "u", "t", "s">>, <<"c", "o", "m", "p", "o", "s", "a", "b", "l", "e", "s">>, <<"h", "o", "o", "k", "s">>, <<"l", "i", "b">>, <<"c", "o", "n", "f", "i", "g">>,
    <<"c", "o", "n", "s", "t", "a", "n", "t", "s">>, <<"i", "n", "t", "e", "r", "f", "a", "c", "e", "s">>, <<"m", "o", "d", "e", "l", "s">>, <<"s", "e", "r", "v", "i", "c", "e", "s">>, <<"a", "p", "i">>, <<"i", "1", "8", "n">>,
    <<"l", "o", "c", "a", "l", "e", "s">>, <<"t", "h", "e", "m", "e">>, <<"_", "_", "t", "e", "s", "t", "s", "_", "_">>, <<"t", "e", "s", "t", "s">>, <<"t", "e", "s", "t">>, <<"m", "o", "c", "k", "s">>,
    <<"_", "_", "m", "o", "c", "k", "s", "_", "_">>, <<"f", "i", "x", "t", "u", "r", "e", "s">>, <<"c", "y", "p", "r", "e", "s", "s">>, <<"e", "2", "e">>, <<"n", "o", "d", "e", "_", "m", "o", "d", "u", "l", "e", "s">>,
    <<"d", "i", "s", "t">>, <<"b", "u", "i", "l", "d">>, <<"a", "g", "-", "g", "r", "i", "d">> }

FEATURE_CONTAINERS ==
  { <<"s", "r", "c">>, <<"c", "o", "m", "p", "o", "n", "e", "n", "t", "s">>, <<"f", "e", "a", "t", "u", "r", "e", "s">>, <<"m", "o", "d", "u", "l", "e", "s">>, <<"v", "i", "e", "w", "s">>, <<"s", "t", "o", "r", "e">>,
    <<"p", "a", "g", "e", "s">>, <<"s", "c", "r", "e", "e", "n", "s">>, <<"a", "p", "p">>, <<"s", "e", "c", "t", "i", "o", "n", "s">>, <<"d", "o", "m", "a", "i", "n", "s">>, <<"p", "a", "t", "t", "e", "r", "n", "s">> }

\* id of the fallback cluster
CROSS_CUTTING == <<"c", "r", "o", "s", "s", "-", "c", "u", "t", "t", "i", "n", "g">>

\* signal weights, in hundredths
W_FOLDER == 35
W_ROUTE == 30
W_IMPORT == 20
W_COCHANGE == 15

\* churn.coChangedWith.slice(0, 10)
TOP_COCHANGED == 10

\* ------------------------------------------------------------------------
\* Feature grouper: helpers
\* ------------------------------------------------------------------------

ZERO_CONFIDENCE == [num |-> 0, den |-> 1]

createFeature(id) ==
  [id |-> id, files |-> <<>>, entryPoints |-> <<>>, confidence |-> ZERO_CONFIDENCE,
   signals |-> <<>>, isCrossCutting |-> FALSE]

\* featureMap.has(id) / the position of the entry of id in insertion order
FmHas(fm, id) == \E i \in 1..Len(fm) : fm[i].id = id

FmIdx(fm, id) == CHOOSE i \in 1..Len(fm) : fm[i].id = id

\* if (!featureMap.has(id)) featureMap.set(id, createFeature(id))
FmEnsure(fm, id) == IF FmHas(fm, id) THEN fm ELSE Append(fm, createFeature(id))

\* fileToFeature.set(k, v)
MapSet(m, k, v) == (k :> v) @@ m

\* !SHARED_DIRS.has(candidate.toLowerCase()) && !candidate.startsWith('.')
CandidateOk(candidate) ==
  ToLowerCase(candidate) \notin SHARED_DIRS /\ ~StartsWith(candidate, <<".">>)

\* one iteration of the package loop of detectFeatureFromPath; NULL when
\* the iteration returns nothing
DetectInPackage(filePath, pkgDir) ==
  LET parts == Split(filePath, "/")
      pkgParts == Split(pkgDir, "/")
      innerParts == SliceFrom(parts, Len(pkgParts))
  IN IF ~StartsWith(filePath, pkgDir \o <<"/">>) THEN NULL
     ELSE IF /\ Len(innerParts) >= 2
             /\ innerParts[1] \in FEATURE_CONTAINERS
             /\ CandidateOk(innerParts[2])
          THEN innerParts[2]
     ELSE IF /\ Len(innerParts) >= 3
             /\ innerParts[1] \in FEATURE_CONTAINERS
             /\ (innerParts[2] \in FEATURE_CONTAINERS \/ innerParts[2] = <<"p", "a", "t", "t", "e", "r", "n", "s">>)
             /\ CandidateOk(innerParts[3])
          THEN innerParts[3]
     ELSE NULL

RECURSIVE DetectInPackages(_, _)
DetectInPackages(filePath, packages) ==
  IF packages = <<>> THEN NULL
  ELSE LET r == DetectInPackage(filePath, Head(packages))
       IN IF r # NULL THEN r ELSE DetectInPackages(filePath, Tail(packages))

detectFeatureFromPath(filePath, packages) ==
  LET parts == Split(filePath, "/")
      inPkg == DetectInPackages(filePath, packages)
  IN IF inPkg # NULL THEN inPkg
     ELSE IF /\ Len(parts) >= 2
             /\ parts[1] \in FEATURE_CONTAINERS
             /\ CandidateOk(parts[2])
          THEN parts[2]
     ELSE NULL

detectFeatureFromRoute(filePath, pagesPrefix) ==
  LET routePart == ReplaceFirst(filePath, pagesPrefix, <<>>)
      parts == Split(routePart, "/")
      featureId == StripExt(parts[1])
  IN IF /\ parts[1] # <<>>
        /\ ~StartsWith(parts[1], <<"_">>)
        /\ ~StartsWith(parts[1], <<".">>)
        /\ featureId # <<>>
        /\ featureId # <<"i", "n", "d", "e", "x">>
     THEN featureId
     ELSE NULL

\* (config?.conventionPaths || []).filter(p => p.endsWith('pages/') || ...)
PagesDirs(conventionPaths) ==
  SelectSeq(conventionPaths,
            LAMBDA p : EndsWith(p, <<"p", "a", "g", "e", "s", "/">>) \/ EndsWith(p, <<"a", "p", "p", "/">>) \/ EndsWith(p, <<"r", "o", "u", "t", "e", "s", "/">>))

\* ------------------------------------------------------------------------
\* Feature grouper: the four signal passes, the fallback and the confidence
\* pass.  A pass state st is [fm |-> featureMap, f2f |-> fileToFeature].
\* ------------------------------------------------------------------------

\* body of the signal-1 loop for one file
Signal1File(st, rel, packages) ==
  LET featureId == detectFeatureFromPath(rel, packages)
  IN IF featureId # NULL
     THEN LET fm1 == FmEnsure(st.fm, featureId)
              i == FmIdx(fm1, featureId)
          IN [fm |-> [fm1 EXCEPT ![i].files = Append(@, rel),
                                 ![i].signals = Append(@, [type |-> "folder", weight |-> W_FOLDER])],
              f2f |-> MapSet(st.f2f, rel, featureId)]
     ELSE st

RECURSIVE Signal1(_, _, _)
Signal1(st, fs, packages) ==
  IF fs = <<>> THEN st
  ELSE Signal1(Signal1File(st, Head(fs), packages), Tail(fs), packages)

\* body of the inner signal-2 loop for one file and one pages directory
Signal2Dir(st, rel, pagesDir) ==
  IF ~StartsWith(rel, pagesDir) THEN st
  ELSE LET routeFeature == detectFeatureFromRoute(rel, pagesDir)
       IN IF routeFeature # NULL /\ FmHas(st.fm, routeFeature)
          THEN LET i == FmIdx(st.fm, routeFeature)
               IN [st EXCEPT !.fm[i].entryPoints =
                                IF rel \in Range(@) THEN @ ELSE Append(@, rel),
                             !.fm[i].signals =
                                Append(@, [type |-> "route", weight |-> W_ROUTE])]
          ELSE IF routeFeature # NULL
          THEN LET fm1 == FmEnsure(st.fm, routeFeature)
                   i == FmIdx(fm1, routeFeature)
               IN [fm |-> [fm1 EXCEPT ![i].files = Append(@, rel),
                                      ![i].entryPoints = Append(@, rel),
                                      ![i].signals = Append(@, [type |-> "route", weight |-> W_ROUTE])],
                   f2f |-> MapSet(st.f2f, rel, routeFeature)]
          ELSE st

RECURSIVE Signal2Dirs(_, _, _)
Signal2Dirs(st, rel, dirs) ==
  IF dirs = <<>> THEN st
  ELSE Signal2Dirs(Signal2Dir(st, rel, Head(dirs)), rel, Tail(dirs))

RECURSIVE Signal2(_, _, _)
Signal2(st, fs, dirs) ==
  IF fs = <<>> THEN st
  ELSE Signal2(Signal2Dirs(st, Head(fs), dirs), Tail(fs), dirs)

\* body of the signal-3 loop for one import edge
Signal3Edge(st, edge) ==
  LET hasSource == edge.source \in DOMAIN st.f2f
      hasTarget == edge.target \in DOMAIN st.f2f
  IN IF hasSource /\ ~hasTarget
     THEN LET sourceFeature == st.f2f[edge.source]
              i == FmIdx(st.fm, sourceFeature)
          IN IF edge.target \notin Range(st.fm[i].files)
             THEN [fm |-> [st.fm EXCEPT ![i].files = Append(@, edge.target),
                                        ![i].signals = Append(@, [type |-> "import-cluster",
                                                                  weight |-> W_IMPORT])],
                   f2f |-> MapSet(st.f2f, edge.target, sourceFeature)]
             ELSE st
     ELSE st

RECURSIVE Signal3(_, _)
Signal3(st, edges) ==
  IF edges = <<>> THEN st
  ELSE Signal3(Signal3Edge(st, Head(edges)), Tail(edges))

\* body of the inner signal-4 loop for one co-changed file of a churn entry
\* whose own file is in cluster myFeature
Signal4CoFile(st, coFile, myFeature, fs) ==
  IF coFile \notin DOMAIN st.f2f /\ coFile \in Range(fs)
  THEN LET i == FmIdx(st.fm, myFeature)
       IN IF coFile \notin Range(st.fm[i].files)
          THEN [fm |-> [st.fm EXCEPT ![i].files = Append(@, coFile),
                                     ![i].signals = Append(@, [type |-> "git-cochange",
                                                               weight |-> W_COCHANGE])],
                f2f |-> MapSet(st.f2f, coFile, myFeature)]
          ELSE st
  ELSE st

RECURSIVE Signal4CoFiles(_, _, _, _)
Signal4CoFiles(st, coFiles, myFeature, fs) ==
  IF coFiles = <<>> THEN st
  ELSE Signal4CoFiles(Signal4CoFile(st, Head(coFiles), myFeature, fs),
                      Tail(coFiles), myFeature, fs)

\* body of the outer signal-4 loop for one churn entry
Signal4Churn(st, churn, fs) ==
  IF churn.file \notin DOMAIN st.f2f THEN st
  ELSE Signal4CoFiles(st, SliceTo(churn.coChangedWith, TOP_COCHANGED),
                      st.f2f[churn.file], fs)

RECURSIVE Signal4Loop(_, _, _)
Signal4Loop(st, churns, fs) ==
  IF churns = <<>> THEN st
  ELSE Signal4Loop(Signal4Churn(st, Head(churns), fs), Tail(churns), fs)

\* if (!store.skipGit && store.gitChurns.size > 0) { ... }
Signal4(st, churns, fs, skip) ==
  IF ~skip /\ Len(churns) > 0 THEN Signal4Loop(st, churns, fs) ELSE st

\* body of the fallback loop for one file
AssignUnassignedFile(st, rel) ==
  IF rel \notin DOMAIN st.f2f
  THEN LET fm1 == IF FmHas(st.fm, CROSS_CUTTING) THEN st.fm
                  ELSE Append(st.fm, [createFeature(CROSS_CUTTING)
                                        EXCEPT !.isCrossCutting = TRUE])
           i == FmIdx(fm1, CROSS_CUTTING)
       IN [fm |-> [fm1 EXCEPT ![i].files = Append(@, rel)],
           f2f |-> MapSet(st.f2f, rel, CROSS_CUTTING)]
  ELSE st

RECURSIVE AssignUnassigned(_, _)
AssignUnassigned(st, fs) ==
  IF fs = <<>> THEN st
  ELSE AssignUnassigned(AssignUnassignedFile(st, Head(fs)), Tail(fs))

\* feature.signals.reduce((sum, s) => sum + s.weight, 0), in hundredths
RECURSIVE TotalWeight(_)
TotalWeight(signals) ==
  IF signals = <<>> THEN 0 ELSE Head(signals).weight + TotalWeight(Tail(signals))

\* Confidence with the bonus taken per signal, not per distinct signal type
ConfidencePerSignal(signals) ==
  LET n == Len(signals)
      den == IF n > 0 THEN 100 * n ELSE 100
      raw == IF n > 0 THEN TotalWeight(signals) + 10 * n * n ELSE 0
  IN [num |-> IF raw < den THEN raw ELSE den, den |-> den]

\* Math.min(1, avgWeight + signalTypes.size * 0.1) as the fraction num/den
Confidence(signals) ==
  LET signalTypes == {signals[i].type : i \in 1..Len(signals)}
      n == Len(signals)
      den == IF n > 0 THEN 100 * n ELSE 100
      raw == IF n > 0 THEN TotalWeight(signals) + 10 * Cardinality(signalTypes) * n
             ELSE 10 * Cardinality(signalTypes)
  IN [num |-> IF raw < den THEN raw ELSE den, den |-> den]

\* the body of the confidence loop flagging below one half
ScoreFeatureStrict(feature) ==
  LET c == Confidence(feature.signals)
  IN [feature EXCEPT !.confidence = c,
                     !.isCrossCutting = IF 2 * c.num < c.den /\ ~@ THEN TRUE ELSE @]

\* body of the confidence loop for one feature
ScoreFeature(feature) ==
  LET c == Confidence(feature.signals)
  IN [feature EXCEPT !.confidence = c,
                     !.isCrossCutting = IF 10 * c.num < 3 * c.den /\ ~@ THEN TRUE ELSE @]

ScoreFeatures(fm) == [i \in 1..Len(fm) |-> ScoreFeature(fm[i])]

\* ------------------------------------------------------------------------
\* Repo indexer: resolveImportPath
\* ------------------------------------------------------------------------

\* path.dirname of a relative path
Dirname(p) ==
  LET i == LastIndexOfChar(p, "/")
  IN IF i = 0 THEN <<".">> ELSE SubSeq(p, 1, i - 1)

\* path.basename
Basename(p) == SubSeq(p, LastIndexOfChar(p, "/") + 1, Len(p))

\* segs.join('/')
RECURSIVE JoinSlash(_)
JoinSlash(segs) ==
  IF segs = <<>> THEN <<>>
  ELSE IF Len(segs) = 1 THEN segs[1]
  ELSE segs[1] \o <<"/">> \o JoinSlash(Tail(segs))

\* the segment walk of path.normalize on a relative path: '' and '.' are
\* skipped, '..' removes the segment before it or is kept above the start
RECURSIVE NormalizeSegs(_, _)
NormalizeSegs(acc, segs) ==
  IF segs = <<>> THEN acc
  ELSE LET s == Head(segs)
           next == IF s = <<>> \/ s = <<".">> THEN acc
                   ELSE IF s = <<".", ".">>
                        THEN IF Len(acc) > 0 /\ acc[Len(acc)] # <<".", ".">>
                             THEN SubSeq(acc, 1, Len(acc) - 1)
                             ELSE Append(acc, s)
                   ELSE Append(acc, s)
       IN NormalizeSegs(next, Tail(segs))

\* path.join(dir, p) for a relative dir: normalize(dir + '/' + p)
PathJoin(dir, p) ==
  LET joined == dir \o <<"/">> \o p
      body == JoinSlash(NormalizeSegs(<<>>, Split(joined, "/")))
      trailing == joined[Len(joined)] = "/"
  IN IF body = <<>> THEN (IF trailing THEN <<".", "/">> ELSE <<".">>)
     ELSE IF trailing THEN body \o <<"/">> ELSE body

\* the probe list of resolveImportPath
RESOLVE_EXTENSIONS ==
  << <<".", "t", "s">>, <<".", "t", "s", "x">>, <<".", "j", "s">>, <<".", "j", "s", "x">>, <<".", "v", "u", "e">>, <<".", "s", "v", "e", "l", "t", "e">>, <<".", "m", "j", "s">>,
     <<"/", "i", "n", "d", "e", "x", ".", "t", "s">>, <<"/", "i", "n", "d", "e", "x", ".", "t", "s", "x">>, <<"/", "i", "n", "d", "e", "x", ".", "j", "s">>, <<"/", "i", "n", "d", "e", "x", ".", "j", "s", "x">>, <<"/", "i", "n", "d", "e", "x", ".", "v", "u", "e">> >>

\* Object.keys(aliases).some(prefix => importPath.startsWith(prefix.replace(/\/$/, '')))
IsAliased(importPath, aliases) ==
  \E i \in 1..Len(aliases) : StartsWith(importPath, StripTrailingSlash(aliases[i].alias))

\* the alias loop: the first alias that the specifier matches is substituted
RECURSIVE SubstituteAlias(_, _)
SubstituteAlias(importPath, aliases) ==
  IF aliases = <<>> THEN importPath
  ELSE LET cleanAlias == StripTrailingSlash(Head(aliases).alias)
       IN IF StartsWith(importPath, cleanAlias \o <<"/">>) \/ importPath = cleanAlias
          THEN ReplaceFirst(importPath, cleanAlias, StripTrailingSlash(Head(aliases).target))
          ELSE SubstituteAlias(importPath, Tail(aliases))

\* the first candidate resolvedPath + ext that is indexed, NULL when none is
RECURSIVE ProbeExtensions(_, _, _)
ProbeExtensions(resolvedPath, exts, indexed) ==
  IF exts = <<>> THEN NULL
  ELSE IF (resolvedPath \o Head(exts)) \in indexed THEN resolvedPath \o Head(exts)
  ELSE ProbeExtensions(resolvedPath, Tail(exts), indexed)

\* resolveImportPath returning the path it built when no probe matched
resolveImportPathUnprobed(importPath, fromFile, indexed, aliases) ==
  LET isRelative == StartsWith(importPath, <<".">>) \/ StartsWith(importPath, <<"/">>)
      isAliased == IsAliased(importPath, aliases)
      substituted == SubstituteAlias(importPath, aliases)
      resolvedPath == IF StartsWith(substituted, <<".">>)
                      THEN PathJoin(Dirname(fromFile), substituted)
                      ELSE substituted
      withExt == ProbeExtensions(resolvedPath, RESOLVE_EXTENSIONS, indexed)
      withoutExt == StripExt(resolvedPath)
  IN IF ~isRelative /\ ~isAliased THEN NULL
     ELSE IF resolvedPath \in indexed THEN resolvedPath
     ELSE IF withExt # NULL THEN withExt
     ELSE IF withoutExt \in indexed THEN withoutExt
     ELSE resolvedPath

\* store.files.has(...) is membership in indexed, the set of indexed paths
resolveImportPath(importPath, fromFile, indexed, aliases) ==
  LET isRelative == StartsWith(importPath, <<".">>) \/ StartsWith(importPath, <<"/">>)
      isAliased == IsAliased(importPath, aliases)
      substituted == SubstituteAlias(importPath, aliases)
      resolvedPath == IF StartsWith(substituted, <<".">>)
                      THEN PathJoin(Dirname(fromFile), substituted)
                      ELSE substituted
      withExt == ProbeExtensions(resolvedPath, RESOLVE_EXTENSIONS, indexed)
      withoutExt == StripExt(resolvedPath)
  IN IF ~isRelative /\ ~isAliased THEN NULL
     ELSE IF resolvedPath \in indexed THEN resolvedPath
     ELSE IF withExt # NULL THEN withExt
     ELSE IF withoutExt \in indexed THEN withoutExt
     ELSE NULL

\* the import loop of repoIndexer.run over the raw imports of all files:
\* log of [source, importPath, resolved], one entry per raw specifier
ResolveAll(raws, indexed, aliases) ==
  [i \in 1..Len(raws) |->
     [source |-> raws[i].source, importPath |-> raws[i].target,
      resolved |-> resolveImportPath(raws[i].target, raws[i].source, indexed, aliases)]]

\* if (resolved) store.importGraph.push({...edge, target: resolved})
RECURSIVE PushResolved(_, _)
PushResolved(graph, log) ==
  IF log = <<>> THEN graph
  ELSE PushResolved(IF Head(log).resolved # NULL
                    THEN Append(graph, [source |-> Head(log).source,
                                        target |-> Head(log).resolved])
                    ELSE graph,
                    Tail(log))

\* ------------------------------------------------------------------------
\* JavaScript number arithmetic.  The doubles of the impact score lie in
\* [0, 128) and are multiples of 2^-59, so a double is held exactly as a
\* fixed-point number: FRACTION_LIMBS limbs of fraction and one limb of
\* integer part, lowest limb first, each limb a digit in base LIMB.  Every
\* operation computes the exact result and rounds it to DOUBLE_PRECISION
\* significant binary digits, to nearest and ties to even, as IEEE 754 does.
\* ------------------------------------------------------------------------

DOUBLE_PRECISION == 53

LIMB_BITS == 15

LIMB == 2 ^ LIMB_BITS

FRACTION_LIMBS == 5

Zeros(n) == [i \in 1..n |-> 0]

Reverse(s) == [i \in 1..Len(s) |-> s[Len(s) + 1 - i]]

\* number of binary digits of a limb
LimbBitLen(x) ==
  IF x = 0 THEN 0 ELSE CHOOSE k \in 1..LIMB_BITS : 2 ^ (k - 1) <= x /\ x < 2 ^ k

\* number of binary digits of a limb sequence
BitLen(N) ==
  LET nz == {i \in 1..Len(N) : N[i] # 0}
  IN IF nz = {} THEN 0
     ELSE LET t == CHOOSE i \in nz : \A j \in nz : j <= i
          IN LIMB_BITS * (t - 1) + LimbBitLen(N[t])

\* N * k + carry, kept to the width of N
RECURSIVE MulSmall(_, _, _)
MulSmall(N, k, carry) ==
  IF N = <<>> THEN <<>>
  ELSE LET s == Head(N) * k + carry
       IN <<s % LIMB>> \o MulSmall(Tail(N), k, s \div LIMB)

\* a + b + carry for limb sequences of one width
RECURSIVE AddLimbs(_, _, _)
AddLimbs(a, b, carry) ==
  IF a = <<>> THEN <<>>
  ELSE LET s == Head(a) + Head(b) + carry
       IN <<s % LIMB>> \o AddLimbs(Tail(a), Tail(b), s \div LIMB)

\* quotient of a limb sequence (highest limb first) by k, r the running remainder
RECURSIVE QuotRev(_, _, _)
QuotRev(Nrev, k, r) ==
  IF Nrev = <<>> THEN <<>>
  ELSE LET cur == r * LIMB + Head(Nrev)
       IN <<cur \div k>> \o QuotRev(Tail(Nrev), k, cur % k)

\* remainder of that division
RECURSIVE RemRev(_, _, _)
RemRev(Nrev, k, r) ==
  IF Nrev = <<>> THEN r ELSE RemRev(Tail(Nrev), k, (r * LIMB + Head(Nrev)) % k)

\* N shifted right by s binary digits, and whether a non-zero digit fell off
ShiftRight(N, s) ==
  LET q == s \div LIMB_BITS
      r == s % LIMB_BITS
      rest == Reverse(SubSeq(N, q + 1, Len(N)) \o Zeros(q))
  IN [shifted |-> Reverse(QuotRev(rest, 2 ^ r, 0)),
      lost |-> (\E i \in 1..q : N[i] # 0) \/ RemRev(rest, 2 ^ r, 0) # 0]

\* N shifted left by s binary digits
ShiftLeft(N, s) ==
  SubSeq(Zeros(s \div LIMB_BITS) \o MulSmall(N, 2 ^ (s % LIMB_BITS), 0), 1, Len(N))

\* round an exact value to a double; stickyIn tells that non-zero digits
\* lie below the lowest limb
Round53(N, stickyIn) ==
  LET n == BitLen(N)
      d == n - DOUBLE_PRECISION
  IN IF n <= DOUBLE_PRECISION THEN N
     ELSE LET sh == ShiftRight(N, d - 1)
              guard == sh.shifted[1] % 2
              lsb == (sh.shifted[1] \div 2) % 2
              up == guard = 1 /\ (sh.lost \/ stickyIn \/ lsb = 1)
              kept == IF guard = 0 THEN sh.shifted
                      ELSE IF up THEN AddLimbs(sh.shifted, <<1>> \o Zeros(Len(N) - 1), 0)
                      ELSE <<sh.shifted[1] - 1>> \o Tail(sh.shifted)
          IN ShiftLeft(kept, d - 1)

\* the first k limbs of the fraction r/d (r < d), highest first
RECURSIVE DivFrac(_, _, _)
DivFrac(r, d, k) ==
  IF k = 0 THEN <<>>
  ELSE <<(r * LIMB) \div d>> \o DivFrac((r * LIMB) % d, d, k - 1)

\* the remainder left after those k limbs
RECURSIVE RemAfter(_, _, _)
RemAfter(r, d, k) == IF k = 0 THEN r ELSE RemAfter((r * LIMB) % d, d, k - 1)

\* an integer as a double
FromInt(n) == Zeros(FRACTION_LIMBS) \o <<n>>

\* n / d for non-negative integers n and d > 0
FDiv(n, d) ==
  Round53(Reverse(DivFrac(n % d, d, FRACTION_LIMBS)) \o <<n \div d>>,
          RemAfter(n % d, d, FRACTION_LIMBS) # 0)

\* Math.min(x, 1)
FMin1(x) == IF x[FRACTION_LIMBS + 1] >= 1 THEN FromInt(1) ELSE x

\* x * k for a non-negative integer k
FMulInt(x, k) == Round53(MulSmall(x, k, 0), FALSE)

\* x + y
FAdd(x, y) == Round53(AddLimbs(x, y, 0), FALSE)

\* Math.round(x): the nearest integer, a tie going up
MathRound(x) ==
  x[FRACTION_LIMBS + 1] + (IF 2 * x[FRACTION_LIMBS] >= LIMB THEN 1 ELSE 0)

\* ------------------------------------------------------------------------
\* Impact analyzer
\* ------------------------------------------------------------------------

\* path.extname: from the last dot of the base name, unless the base name
\* starts with it
Extname(p) ==
  LET name == Basename(p)
      i == LastIndexOfChar(name, ".")
  IN IF i <= 1 THEN <<>> ELSE SubSeq(name, i, Len(name))

getLanguage(ext) ==
  IF ext \in { <<".", "t", "s">>, <<".", "t", "s", "x">> } THEN "typescript"
  ELSE IF ext \in { <<".", "j", "s">>, <<".", "j", "s", "x">>, <<".", "m", "j", "s">>, <<".", "c", "j", "s">> } THEN "javascript"
  ELSE IF ext \in { <<".", "v", "u", "e">>, <<".", "s", "v", "e", "l", "t", "e">> } THEN "vue"
  ELSE IF ext \in { <<".", "c", "s", "s">>, <<".", "s", "c", "s", "s">>, <<".", "l", "e", "s", "s">> } THEN "css"
  ELSE IF ext = <<".", "j", "s", "o", "n">> THEN "json"
  ELSE "other"

isTestFile(filePath) ==
  LET name == Basename(filePath)
  IN \/ Includes(name, <<".", "s", "p", "e", "c", ".">>)
     \/ Includes(name, <<".", "t", "e", "s", "t", ".">>)
     \/ Includes(name, <<"_", "_", "t", "e", "s", "t">>)
     \/ Includes(filePath, <<"/", "t", "e", "s", "t", "/">>)
     \/ Includes(filePath, <<"/", "t", "e", "s", "t", "s", "/">>)
     \/ Includes(filePath, <<"/", "_", "_", "t", "e", "s", "t", "s", "_", "_", "/">>)
     \/ Includes(filePath, <<"/", "c", "y", "p", "r", "e", "s", "s", "/">>)
     \/ Includes(filePath, <<"/", "e", "2", "e", "/">>)

\* fanInMap.get(rel)?.size || 0: the distinct sources of the edges into rel
FanIn(graph, rel) ==
  Cardinality({graph[i].source : i \in {j \in 1..Len(graph) : graph[j].target = rel}})

\* fileToFeatures.get(rel)?.size || 0
FeatureCount(fs, rel) ==
  Cardinality({fs[i].id : i \in {j \in 1..Len(fs) : rel \in Range(fs[j].files)}})

\* CommitCount giving a file without a churn entry one commit
CommitCountOrOne(churns, rel) ==
  IF \E i \in 1..Len(churns) : churns[i].file = rel
  THEN churns[CHOOSE i \in 1..Len(churns) : churns[i].file = rel].commitCount
  ELSE 1

\* store.gitChurns.get(rel)?.commitCount || 0
CommitCount(churns, rel) ==
  IF \E i \in 1..Len(churns) : churns[i].file = rel
  THEN churns[CHOOSE i \in 1..Len(churns) : churns[i].file = rel].commitCount
  ELSE 0

\* filesWithTests.has(rel): rel is what a test file's name maps to
TestSource(testFile) == ReplaceFirst(ReplaceFirst(testFile, <<".", "s", "p", "e", "c", ".">>, <<".">>), <<".", "t", "e", "s", "t", ".">>, <<".">>)

HasTests(fs, rel) ==
  \E i \in 1..Len(fs) : isTestFile(fs[i]) /\ TestSource(fs[i]) = rel

\* store.fileMetrics.get(rel)?.cyclomaticComplexity || 0
Complexity(metrics, rel) ==
  IF \E i \in 1..Len(metrics) : metrics[i].file = rel
  THEN metrics[CHOOSE i \in 1..Len(metrics) : metrics[i].file = rel].cyclomaticComplexity
  ELSE 0

\* Math.round(fanInScore + featureScore + churnScore + testScore + complexityScore)
\* ImpactScore with the fan-in term left uncapped
ImpactScoreUncapped(fanIn, featureCount, gitChurn, hasTests, complexity) ==
  LET fanInScore == FMulInt(FDiv(fanIn, 30), 35)
      featureScore == FMulInt(FMin1(FDiv(featureCount, 5)), 25)
      churnScore == FMulInt(FMin1(FDiv(gitChurn, 100)), 20)
      testScore == FromInt(IF hasTests THEN 0 ELSE 10)
      complexityScore == FMulInt(FMin1(FDiv(complexity, 50)), 10)
  IN MathRound(FAdd(FAdd(FAdd(FAdd(fanInScore, featureScore), churnScore), testScore),
                    complexityScore))

ImpactScore(fanIn, featureCount, gitChurn, hasTests, complexity) ==
  LET fanInScore == FMulInt(FMin1(FDiv(fanIn, 30)), 35)
      featureScore == FMulInt(FMin1(FDiv(featureCount, 5)), 25)
      churnScore == FMulInt(FMin1(FDiv(gitChurn, 100)), 20)
      testScore == FromInt(IF hasTests THEN 0 ELSE 10)
      complexityScore == FMulInt(FMin1(FDiv(complexity, 50)), 10)
  IN MathRound(FAdd(FAdd(FAdd(FAdd(fanInScore, featureScore), churnScore), testScore),
                    complexityScore))

\* Severity with the lower bounds exclusive
SeverityExclusive(impactScore) ==
  IF impactScore > 70 THEN "critical"
  ELSE IF impactScore > 50 THEN "high"
  ELSE IF impactScore > 30 THEN "medium"
  ELSE "low"

Severity(impactScore) ==
  IF impactScore >= 70 THEN "critical"
  ELSE IF impactScore >= 50 THEN "high"
  ELSE IF impactScore >= 30 THEN "medium"
  ELSE "low"

\* the locals of one iteration of the scoring loop
ScoreFile(rel, fs, graph, feats, churns, metrics) ==
  LET fanIn == FanIn(graph, rel)
      featureCount == FeatureCount(feats, rel)
      gitChurn == CommitCount(churns, rel)
      hasTests == HasTests(fs, rel)
      complexity == Complexity(metrics, rel)
  IN [file |-> rel, fanIn |-> fanIn, featureCount |-> featureCount, gitChurn |-> gitChurn,
      hasTests |-> hasTests, complexity |-> complexity,
      impactScore |-> ImpactScore(fanIn, featureCount, gitChurn, hasTests, complexity)]

\* the files the scoring loop does not skip
IsScored(rel) ==
  /\ ~isTestFile(rel)
  /\ getLanguage(Extname(rel)) \notin {"json", "css"}

\* the locals of every iteration that reaches the score
ScoreAll(fs, graph, feats, churns, metrics) ==
  LET scoredFiles == SelectSeq(fs, IsScored)
  IN [i \in 1..Len(scoredFiles) |->
        ScoreFile(scoredFiles[i], fs, graph, feats, churns, metrics)]

\* PushImpactNodes skipping the files that score 15 as well
RECURSIVE PushImpactNodesAbove(_, _)
PushImpactNodesAbove(nodes, scored) ==
  IF scored = <<>> THEN nodes
  ELSE LET s == Head(scored)
       IN PushImpactNodesAbove(
            IF s.impactScore <= 15 THEN nodes
            ELSE Append(nodes, [file |-> s.file, fanIn |-> s.fanIn,
                                featureCount |-> s.featureCount, gitChurn |-> s.gitChurn,
                                hasTests |-> s.hasTests, impactScore |-> s.impactScore,
                                severity |-> Severity(s.impactScore)]),
            Tail(scored))

\* if (impactScore < 15) continue; store.impactNodes.push({...})
RECURSIVE PushImpactNodes(_, _)
PushImpactNodes(nodes, scored) ==
  IF scored = <<>> THEN nodes
  ELSE LET s == Head(scored)
       IN PushImpactNodes(
            IF s.impactScore < 15 THEN nodes
            ELSE Append(nodes, [file |-> s.file, fanIn |-> s.fanIn,
                                featureCount |-> s.featureCount, gitChurn |-> s.gitChurn,
                                hasTests |-> s.hasTests, impactScore |-> s.impactScore,
                                severity |-> Severity(s.impactScore)]),
            Tail(scored))

\* InsertByScore with the comparator reversed: (a, b) => a.impactScore - b.impactScore
RECURSIVE InsertByScoreAscending(_, _)
InsertByScoreAscending(sorted, node) ==
  IF sorted = <<>> THEN <<node>>
  ELSE IF Head(sorted).impactScore - node.impactScore > 0 THEN <<node>> \o sorted
  ELSE <<Head(sorted)>> \o InsertByScoreAscending(Tail(sorted), node)

\* insert node into a list sorted by descending score, after its equals
RECURSIVE InsertByScore(_, _)
InsertByScore(sorted, node) ==
  IF sorted = <<>> THEN <<node>>
  ELSE IF node.impactScore - Head(sorted).impactScore > 0 THEN <<node>> \o sorted
  ELSE <<Head(sorted)>> \o InsertByScore(Tail(sorted), node)

\* store.impactNodes.sort((a, b) => b.impactScore - a.impactScore), stable
RECURSIVE SortByScore(_)
SortByScore(nodes) ==
  IF nodes = <<>> THEN <<>>
  ELSE InsertByScore(SortByScore(SubSeq(nodes, 1, Len(nodes) - 1)), nodes[Len(nodes)])

\* ------------------------------------------------------------------------
\* Quality analyzer: qualityAnalyzer.run
\* ------------------------------------------------------------------------

\* fanInMap.get(rel) || 0: one count per edge into rel
EdgeFanIn(graph, rel) == Cardinality({i \in 1..Len(graph) : graph[i].target = rel})

\* fanOutMap.get(rel) || 0: one count per edge out of rel
EdgeFanOut(graph, rel) == Cardinality({i \in 1..Len(graph) : graph[i].source = rel})

\* the FileMetrics of one file; node holds what the indexer and the
\* complexity functions read from the file's content
FileMetricsOf(rel, node, graph) ==
  [file |-> rel, loc |-> node.loc,
   cyclomaticComplexity |-> node.cyclomaticComplexity,
   cognitiveComplexity |-> node.cognitiveComplexity,
   importCount |-> EdgeFanOut(graph, rel),
   maxFunctionLength |-> node.maxFunctionLength,
   fanIn |-> EdgeFanIn(graph, rel), fanOut |-> EdgeFanOut(graph, rel)]

\* the metrics loop: a file whose content is blank gets no metrics
RECURSIVE ComputeFileMetrics(_, _, _, _)
ComputeFileMetrics(metrics, fs, nodes, graph) ==
  IF fs = <<>> THEN metrics
  ELSE ComputeFileMetrics(
         IF Head(nodes).blank THEN metrics
         ELSE Append(metrics, FileMetricsOf(Head(fs), Head(nodes), graph)),
         Tail(fs), Tail(nodes), graph)

\* store.fileMetrics.has(f)
HasMetrics(metrics, f) == \E i \in 1..Len(metrics) : metrics[i].file = f

\* store.fileMetrics.get(f)
MetricsOf(metrics, f) == metrics[CHOOSE i \in 1..Len(metrics) : metrics[i].file = f]

RECURSIVE SumOf(_)
SumOf(nums) == IF nums = <<>> THEN 0 ELSE Head(nums) + SumOf(Tail(nums))

\* avg(nums) > t for integers: the double quotient sum / length is above
\* the integer t exactly when the exact quotient is
AvgAbove(nums, t) == nums # <<>> /\ SumOf(nums) > t * Len(nums)

\* Math.max(...nums) of a non-empty list
MaxOf(nums) == CHOOSE x \in Range(nums) : \A y \in Range(nums) : y <= x

clamp(v, min, max) == IF v > max THEN max ELSE IF v < min THEN min ELSE v

\* a > hi ? 3 : a > mid ? 2 : a > lo ? 1 : 0 for the average a of nums
Penalty3(nums, hi, mid, lo) ==
  IF AvgAbove(nums, hi) THEN 3 ELSE IF AvgAbove(nums, mid) THEN 2
  ELSE IF AvgAbove(nums, lo) THEN 1 ELSE 0

\* a > hi ? 2 : a > lo ? 1 : 0 for the average a of nums
Penalty2(nums, hi, lo) ==
  IF AvgAbove(nums, hi) THEN 2 ELSE IF AvgAbove(nums, lo) THEN 1 ELSE 0

architectureScore(metrics) ==
  LET locs == [i \in 1..Len(metrics) |-> metrics[i].loc]
      fanOuts == [i \in 1..Len(metrics) |-> metrics[i].fanOut]
      maxLoc == MaxOf(locs)
  IN clamp(10 - (Penalty3(fanOuts, 15, 10, 5)
                 + Penalty3(locs, 500, 300, 150)
                 + (IF maxLoc > 1000 THEN 2 ELSE IF maxLoc > 500 THEN 1 ELSE 0)
                 + (IF Len(metrics) > 50 THEN 2 ELSE IF Len(metrics) > 30 THEN 1 ELSE 0)),
           0, 10)

codeQualityScore(metrics) ==
  LET complexities == [i \in 1..Len(metrics) |-> metrics[i].cyclomaticComplexity]
      cognitive == [i \in 1..Len(metrics) |-> metrics[i].cognitiveComplexity]
      lengths == [i \in 1..Len(metrics) |-> metrics[i].maxFunctionLength]
  IN clamp(10 - (Penalty3(complexities, 30, 20, 10)
                 + Penalty3(cognitive, 40, 25, 15)
                 + Penalty2(lengths, 100, 50)),
           0, 10)

\* churnCounts: commitCount || 0 of each feature file, empty under skipGit
bugRiskScore(metrics, churnCounts) ==
  LET fanIns == [i \in 1..Len(metrics) |-> metrics[i].fanIn]
      complexities == [i \in 1..Len(metrics) |-> metrics[i].cyclomaticComplexity]
      maxFanIn == MaxOf(fanIns)
  IN clamp(10 - (Penalty3(fanIns, 20, 10, 5)
                 + (IF maxFanIn > 30 THEN 2 ELSE IF maxFanIn > 15 THEN 1 ELSE 0)
                 + Penalty3(churnCounts, 50, 20, 10)
                 + Penalty2(complexities, 25, 15)),
           0, 10)

\* f.includes('.spec.') || f.includes('.test.')
IsSpecOrTest(f) == Includes(f, <<".", "s", "p", "e", "c", ".">>) \/ Includes(f, <<".", "t", "e", "s", "t", ".">>)

\* the filter of the test-coverage score
CoveredFiles(featureFiles) ==
  LET IsCovered(f) ==
        IsSpecOrTest(f) \/ \E i \in 1..Len(featureFiles) : IsSpecOrTest(featureFiles[i])
  IN SelectSeq(featureFiles, IsCovered)

testCoverageScore(featureFiles) ==
  LET testRatio == IF Len(featureFiles) > 0
                   THEN FDiv(Len(CoveredFiles(featureFiles)), Len(featureFiles))
                   ELSE FromInt(0)
  IN clamp(MathRound(FMulInt(testRatio, 10)), 0, 10)

\* migration?.detected && sourceExtensions.size > 0 && targetExtensions.size > 0
HasMigration(migration) ==
  /\ migration.detected
  /\ migration.sourceExtensions # <<>>
  /\ migration.targetExtensions # <<>>

\* featureFiles.filter(f => exts.some(ext => f.endsWith(ext))).length
CountEndingWith(featureFiles, exts) ==
  Cardinality({i \in 1..Len(featureFiles) :
                 \E j \in 1..Len(exts) : EndsWith(featureFiles[i], exts[j])})

migrationScore(featureFiles, migration) ==
  IF ~HasMigration(migration) THEN 5
  ELSE LET sourceCount == CountEndingWith(featureFiles, migration.sourceExtensions)
           targetCount == CountEndingWith(featureFiles, migration.targetExtensions)
           totalUIFiles == sourceCount + targetCount
       IN IF totalUIFiles > 0
          THEN clamp(MathRound(FMulInt(FDiv(targetCount, totalUIFiles), 10)), 0, 10)
          ELSE 5

\* Overall with the test weight raised by 0.05 under a migration as well
OverallFlatTestWeight(architecture, codeQuality, bugRisk, testCoverage, migrationHealth, hasMigration) ==
  LET migrationWeight == IF hasMigration THEN FDiv(10, 100) ELSE FromInt(0)
      testWeight == FAdd(FDiv(15, 100), FDiv(5, 100))
  IN FAdd(FAdd(FAdd(FAdd(FMulInt(FDiv(30, 100), architecture),
                         FMulInt(FDiv(25, 100), codeQuality)),
                    FMulInt(FDiv(20, 100), bugRisk)),
               FMulInt(testWeight, testCoverage)),
          FMulInt(migrationWeight, migrationHealth))

\* the weighted sum of the five scores, a double
Overall(architecture, codeQuality, bugRisk, testCoverage, migrationHealth, hasMigration) ==
  LET migrationWeight == IF hasMigration THEN FDiv(10, 100) ELSE FromInt(0)
      testWeight == FAdd(FDiv(15, 100), IF hasMigration THEN FromInt(0) ELSE FDiv(5, 100))
  IN FAdd(FAdd(FAdd(FAdd(FMulInt(FDiv(30, 100), architecture),
                         FMulInt(FDiv(25, 100), codeQuality)),
                    FMulInt(FDiv(20, 100), bugRisk)),
               FMulInt(testWeight, testCoverage)),
          FMulInt(migrationWeight, migrationHealth))

\* x >= k for a double x and an integer k
FGeInt(x, k) == x[FRACTION_LIMBS + 1] >= k

Grade(overall) ==
  IF FGeInt(overall, 8) THEN "A" ELSE IF FGeInt(overall, 6) THEN "B"
  ELSE IF FGeInt(overall, 4) THEN "C" ELSE IF FGeInt(overall, 2) THEN "D" ELSE "F"

\* round(v) = Math.round(v * 10) / 10, held as the integer Math.round(v * 10):
\* the number of tenths of the reported value
round(v) == MathRound(FMulInt(v, 10))

\* the FeatureScore of one feature with at least one measured file
FeatureScoreOf(feature, featureFiles, metrics, churns, skip, migration) ==
  LET ms == [i \in 1..Len(featureFiles) |-> MetricsOf(metrics, featureFiles[i])]
      churnCounts == IF skip THEN <<>>
                     ELSE [i \in 1..Len(featureFiles) |-> CommitCount(churns, featureFiles[i])]
      architecture == architectureScore(ms)
      codeQuality == codeQualityScore(ms)
      bugRisk == bugRiskScore(ms, churnCounts)
      testCoverage == testCoverageScore(featureFiles)
      migrationHealth == migrationScore(featureFiles, migration)
      overall == Overall(architecture, codeQuality, bugRisk, testCoverage, migrationHealth,
                         HasMigration(migration))
  IN [featureId |-> feature.id,
      architecture |-> round(FromInt(architecture)),
      codeQuality |-> round(FromInt(codeQuality)),
      bugRisk |-> round(FromInt(bugRisk)),
      testCoverage |-> round(FromInt(testCoverage)),
      migrationHealth |-> round(FromInt(migrationHealth)),
      overall |-> round(overall),
      grade |-> Grade(overall)]

\* the feature loop: a feature none of whose files has metrics is skipped
RECURSIVE ComputeFeatureScores(_, _, _, _, _, _)
ComputeFeatureScores(scores, feats, metrics, churns, skip, migration) ==
  IF feats = <<>> THEN scores
  ELSE LET HasM(f) == HasMetrics(metrics, f)
           featureFiles == SelectSeq(Head(feats).files, HasM)
       IN ComputeFeatureScores(
            IF featureFiles = <<>> THEN scores
            ELSE Append(scores, FeatureScoreOf(Head(feats), featureFiles, metrics,
                                               churns, skip, migration)),
            Tail(feats), metrics, churns, skip, migration)

\* ------------------------------------------------------------------------
\* State
\* ------------------------------------------------------------------------

VARIABLES
  files,          \* store.files: the indexed relative paths, in insertion order
  config,         \* store.config: packages, conventionPaths, aliases
  importGraph,    \* store.importGraph: sequence of [source, target]
  gitChurns,      \* store.gitChurns: sequence of [file, commitCount, coChangedWith]
  skipGit,        \* store.skipGit
  features,       \* store.features
  rawImports,     \* extractImports results of all files, in the order the
                  \* indexer visits them: sequence of [source, target]
  resolutions,    \* repoIndexer.run: the value of resolved for each raw import
  fileMetrics,    \* store.fileMetrics: sequence of [file, cyclomaticComplexity]
  impactNodes,    \* store.impactNodes
  impactScored,   \* impactAnalyzer.run: the locals of each scoring iteration
  fileNodes,      \* store.files values with what the analyzers read from the
                  \* content: [loc, blank, cyclomaticComplexity,
                  \* cognitiveComplexity, maxFunctionLength], parallel to files
  featureScores,  \* store.featureScores, the scores in tenths
  hashIndex,      \* duplicationAnalyzer.run: hashIndex as [hash, entries]
  matches,        \* duplicationAnalyzer.run: local matches
  duplications,   \* store.duplications
  scanned,        \* number of hashIndex entries the matching loop has taken
  loopI,          \* duplicationAnalyzer.run: i of the pair loop, from 1
  loopJ,          \* duplicationAnalyzer.run: j of the pair loop, from 1
  featureMap,     \* featureGrouper.run: local featureMap
  fileToFeature,  \* featureGrouper.run: local fileToFeature
  agentStatus,    \* main: how far runAgent has come for each agent
  microtasks,     \* the agents whose runAgent call waits to resume, in order
  writers,        \* <<agent, collection>> for every store collection an
                  \* agent has written or mutated
  pc              \* position of the running agent, or of main

storeInputs == <<files, config, importGraph, gitChurns, skipGit>>

indexerVars == <<rawImports, resolutions>>

grouperVars == <<features, featureMap, fileToFeature>>

impactVars == <<fileMetrics, impactNodes, impactScored>>

qualityVars == <<fileNodes, featureScores>>

duplicationVars == <<hashIndex, matches, duplications, scanned, loopI, loopJ>>

pipelineVars == <<agentStatus, microtasks, writers>>

vars == <<files, config, importGraph, gitChurns, skipGit, features,
          rawImports, resolutions, fileMetrics, impactNodes, impactScored,
          fileNodes, featureScores, hashIndex, matches, duplications, scanned, loopI, loopJ,
          featureMap, fileToFeature, agentStatus, microtasks, writers, pc>>

\* ------------------------------------------------------------------------
\* Bounds and input universes of the feature grouper
\* ------------------------------------------------------------------------

MaxFiles == 3
MaxEdges == 2
MaxChurns == 2
MaxCoChanged == 2

\* the source tree the walker may find, in walk order
GrouperTree ==
  << <<"l", "i", "b", "/", "u", ".", "t", "s">>, <<"p", "a", "g", "e", "s", "/", "c", "a", "r", "t", ".", "v", "u", "e">>, <<"s", "r", "c", "/", "c", "a", "r", "t", "/", "a", ".", "t", "s">>, <<"s", "r", "c", "/", "c", "r", "o", "s", "s", "-", "c", "u", "t", "t", "i", "n", "g", "/", "x", ".", "t", "s">>,
     <<"s", "r", "c", "/", "U", "t", "i", "l", "s", "/", "h", ".", "t", "s">>, <<"w", "e", "b", "/", "s", "r", "c", "/", "c", "a", "r", "t", "/", "b", ".", "t", "s">> >>

GrouperConfigs ==
  { [packages |-> <<>>, conventionPaths |-> <<>>, aliases |-> <<>>],
    [packages |-> << <<"w", "e", "b">> >>, conventionPaths |-> << <<"p", "a", "g", "e", "s", "/">>, <<"s", "t", "o", "r", "e", "/">> >>,
     aliases |-> <<>>] }

\* the elements of tree at the positions idx, in tree order
RECURSIVE Pick(_, _)
Pick(tree, idx) ==
  IF idx = {} THEN <<>>
  ELSE LET i == CHOOSE k \in idx : \A j \in idx : k <= j
       IN <<tree[i]>> \o Pick(tree, idx \ {i})

Inventories(tree, max) ==
  {Pick(tree, idx) : idx \in {s \in SUBSET (1..Len(tree)) : Cardinality(s) <= max}}

PosIn(fs, f) == CHOOSE i \in 1..Len(fs) : fs[i] = f

SeqsUpTo(S, max) == UNION {[1..n -> S] : n \in 0..max}

\* the imports the files of the tree may hold, as [source, target]
GrouperEdges ==
  { [source |-> <<"l", "i", "b", "/", "u", ".", "t", "s">>, target |-> <<"s", "r", "c", "/", "U", "t", "i", "l", "s", "/", "h", ".", "t", "s">>],
    [source |-> <<"p", "a", "g", "e", "s", "/", "c", "a", "r", "t", ".", "v", "u", "e">>, target |-> <<"l", "i", "b", "/", "u", ".", "t", "s">>],
    [source |-> <<"s", "r", "c", "/", "c", "a", "r", "t", "/", "a", ".", "t", "s">>, target |-> <<"l", "i", "b", "/", "u", ".", "t", "s">>],
    [source |-> <<"s", "r", "c", "/", "c", "a", "r", "t", "/", "a", ".", "t", "s">>, target |-> <<"s", "r", "c", "/", "U", "t", "i", "l", "s", "/", "h", ".", "t", "s">>],
    [source |-> <<"s", "r", "c", "/", "c", "r", "o", "s", "s", "-", "c", "u", "t", "t", "i", "n", "g", "/", "x", ".", "t", "s">>, target |-> <<"s", "r", "c", "/", "c", "a", "r", "t", "/", "a", ".", "t", "s">>],
    [source |-> <<"s", "r", "c", "/", "U", "t", "i", "l", "s", "/", "h", ".", "t", "s">>, target |-> <<"l", "i", "b", "/", "u", ".", "t", "s">>],
    [source |-> <<"w", "e", "b", "/", "s", "r", "c", "/", "c", "a", "r", "t", "/", "b", ".", "t", "s">>, target |-> <<"s", "r", "c", "/", "U", "t", "i", "l", "s", "/", "h", ".", "t", "s">>] }

\* import graphs the indexer can build over fs: edges between indexed
\* files, grouped by source in the order the indexer visits the files
ImportGraphs(fs, max) ==
  LET E == {e \in GrouperEdges : e.source \in Range(fs) /\ e.target \in Range(fs)}
  IN {g \in SeqsUpTo(E, max) :
        \A i \in 1..(Len(g) - 1) : PosIn(fs, g[i].source) <= PosIn(fs, g[i + 1].source)}

\* the co-change lists git history may give the files of the tree; a
\* list may name a path that is not indexed
GrouperCoChanges ==
  { [file |-> <<"s", "r", "c", "/", "c", "a", "r", "t", "/", "a", ".", "t", "s">>, coChangedWith |-> << <<"s", "r", "c", "/", "U", "t", "i", "l", "s", "/", "h", ".", "t", "s">> >>],
    [file |-> <<"s", "r", "c", "/", "c", "a", "r", "t", "/", "a", ".", "t", "s">>, coChangedWith |-> << <<"R", "E", "A", "D", "M", "E", ".", "m", "d">>, <<"l", "i", "b", "/", "u", ".", "t", "s">> >>],
    [file |-> <<"s", "r", "c", "/", "U", "t", "i", "l", "s", "/", "h", ".", "t", "s">>, coChangedWith |-> << <<"l", "i", "b", "/", "u", ".", "t", "s">> >>],
    [file |-> <<"l", "i", "b", "/", "u", ".", "t", "s">>, coChangedWith |-> << <<"s", "r", "c", "/", "c", "a", "r", "t", "/", "a", ".", "t", "s">> >>],
    [file |-> <<"p", "a", "g", "e", "s", "/", "c", "a", "r", "t", ".", "v", "u", "e">>, coChangedWith |-> << <<"l", "i", "b", "/", "u", ".", "t", "s">> >>],
    [file |-> <<"w", "e", "b", "/", "s", "r", "c", "/", "c", "a", "r", "t", "/", "b", ".", "t", "s">>, coChangedWith |-> << <<"s", "r", "c", "/", "U", "t", "i", "l", "s", "/", "h", ".", "t", "s">>, <<"l", "i", "b", "/", "u", ".", "t", "s">> >>],
    [file |-> <<"s", "r", "c", "/", "c", "r", "o", "s", "s", "-", "c", "u", "t", "t", "i", "n", "g", "/", "x", ".", "t", "s">>, coChangedWith |-> <<>>] }

\* churn maps git history can give: one entry per file
ChurnEntries(fs, counts, maxCo) ==
  {[file |-> c.file, commitCount |-> n, coChangedWith |-> c.coChangedWith] :
     c \in {d \in GrouperCoChanges : d.file \in Range(fs) /\ Len(d.coChangedWith) <= maxCo},
     n \in counts}

ChurnMaps(fs, counts, max, maxCo) ==
  {m \in SeqsUpTo(ChurnEntries(fs, counts, maxCo), max) :
     \A i, j \in 1..Len(m) : m[i].file = m[j].file => i = j}

\* ------------------------------------------------------------------------
\* Feature grouper: featureGrouper.run, one step per pass
\* ------------------------------------------------------------------------

GrouperState == [fm |-> featureMap, f2f |-> fileToFeature]

InitGrouper ==
  /\ files \in Inventories(GrouperTree, MaxFiles)
  /\ config \in GrouperConfigs
  /\ importGraph \in ImportGraphs(files, MaxEdges)
  /\ skipGit \in BOOLEAN
  /\ gitChurns \in IF skipGit THEN {<<>>}
                   ELSE ChurnMaps(files, {1}, MaxChurns, MaxCoChanged)
  /\ rawImports = <<>>
  /\ resolutions = <<>>
  /\ fileMetrics = <<>>
  /\ impactNodes = <<>>
  /\ impactScored = <<>>
  /\ fileNodes = <<>>
  /\ featureScores = <<>>
  /\ hashIndex = <<>>
  /\ matches = <<>>
  /\ duplications = <<>>
  /\ scanned = 0
  /\ loopI = 0
  /\ loopJ = 0
  /\ features = <<>>
  /\ featureMap = <<>>
  /\ fileToFeature = <<>>
  /\ pc = "signal1"
  /\ agentStatus = <<>>
  /\ microtasks = <<>>
  /\ writers = {}

RunSignal1 ==
  /\ pc = "signal1"
  /\ LET st == Signal1(GrouperState, files, config.packages)
     IN featureMap' = st.fm /\ fileToFeature' = st.f2f
  /\ pc' = "signal2"
  /\ UNCHANGED <<pipelineVars, storeInputs, indexerVars, impactVars, features, qualityVars, duplicationVars>>

RunSignal2 ==
  /\ pc = "signal2"
  /\ LET st == Signal2(GrouperState, files, PagesDirs(config.conventionPaths))
     IN featureMap' = st.fm /\ fileToFeature' = st.f2f
  /\ pc' = "signal3"
  /\ UNCHANGED <<pipelineVars, storeInputs, indexerVars, impactVars, features, qualityVars, duplicationVars>>

RunSignal3 ==
  /\ pc = "signal3"
  /\ LET st == Signal3(GrouperState, importGraph)
     IN featureMap' = st.fm /\ fileToFeature' = st.f2f
  /\ pc' = "signal4"
  /\ UNCHANGED <<pipelineVars, storeInputs, indexerVars, impactVars, features, qualityVars, duplicationVars>>

RunSignal4 ==
  /\ pc = "signal4"
  /\ LET st == Signal4(GrouperState, gitChurns, files, skipGit)
     IN featureMap' = st.fm /\ fileToFeature' = st.f2f
  /\ pc' = "assign"
  /\ UNCHANGED <<pipelineVars, storeInputs, indexerVars, impactVars, features, qualityVars, duplicationVars>>

RunAssignUnassigned ==
  /\ pc = "assign"
  /\ LET st == AssignUnassigned(GrouperState, files)
     IN featureMap' = st.fm /\ fileToFeature' = st.f2f
  /\ pc' = "confidence"
  /\ UNCHANGED <<pipelineVars, storeInputs, indexerVars, impactVars, features, qualityVars, duplicationVars>>

\* the confidence loop and store.features = [...featureMap.values()]
RunConfidence ==
  /\ pc = "confidence"
  /\ featureMap' = ScoreFeatures(featureMap)
  /\ features' = featureMap'
  /\ pc' = "grouped"
  /\ UNCHANGED <<pipelineVars, storeInputs, indexerVars, impactVars, fileToFeature, qualityVars, duplicationVars>>

NextGrouper ==
  \/ RunSignal1
  \/ RunSignal2
  \/ RunSignal3
  \/ RunSignal4
  \/ RunAssignUnassigned
  \/ RunConfidence

SpecGrouper == InitGrouper /\ [][NextGrouper]_vars

\* ------------------------------------------------------------------------
\* Properties of the feature grouper
\* ------------------------------------------------------------------------

\* ids of the clusters of fm whose member list holds file f
ClustersOf(fm, f) == {fm[i].id : i \in {j \in 1..Len(fm) : f \in Range(fm[j].files)}}

\* positions of the clusters of fm whose member list holds file f
ClusterPositionsOf(fm, f) == {j \in 1..Len(fm) : f \in Range(fm[j].files)}

EmptyGrouperState == [fm |-> <<>>, f2f |-> <<>>]

\* the files the four signals assign, from the inputs of the run
SignalAssigned ==
  DOMAIN Signal4(Signal3(Signal2(Signal1(EmptyGrouperState, files, config.packages),
                                 files, PagesDirs(config.conventionPaths)),
                         importGraph),
                 gitChurns, files, skipGit).f2f

\* C1: after featureGrouper.run every indexed file is in the member list of
\* exactly one cluster of store.features.
C1_Partition ==
  pc = "grouped" =>
    \A f \in Range(files) : Cardinality(ClusterPositionsOf(features, f)) = 1

\* C2: a file that signal 1 gave a cluster id keeps that id through the
\* later signals and is a member of no other cluster.
C2_Signal1Kept ==
  pc \in {"signal2", "signal3", "signal4", "assign"} =>
    \A f \in Range(files) :
      LET id == detectFeatureFromPath(f, config.packages)
      IN id # NULL =>
           /\ f \in DOMAIN fileToFeature
           /\ fileToFeature[f] = id
           /\ ClustersOf(featureMap, f) = {id}

\* C3: signal 3 assigns a file only if a file that was assigned before the
\* pass began imports it directly.
C3_OneHop ==
  [][pc = "signal3" =>
       \A f \in (DOMAIN fileToFeature') \ (DOMAIN fileToFeature) :
         \E i \in 1..Len(importGraph) :
           /\ importGraph[i].target = f
           /\ importGraph[i].source \in DOMAIN fileToFeature]_vars

\* C4: after clustering the files no signal assigned are members of the
\* cluster 'cross-cutting' and of no other cluster, and that fallback
\* cluster holds no file a signal assigned.
C4_Fallback ==
  pc = "grouped" =>
    LET unassigned == Range(files) \ SignalAssigned
    IN /\ \A f \in unassigned :
            /\ ClustersOf(features, f) = {CROSS_CUTTING}
            /\ Cardinality(ClusterPositionsOf(features, f)) = 1
       /\ unassigned # {} =>
            \A f \in Range(files) \cap SignalAssigned :
              CROSS_CUTTING \notin ClustersOf(features, f)

\* number of signals of one type in a signal list
CountType(signals, t) == Cardinality({i \in 1..Len(signals) : signals[i].type = t})

SignalTypes == {"folder", "route", "import-cluster", "git-cochange"}

\* C5: the confidence of a non-fallback cluster is min(1, average signal
\* weight + 0.1 x number of distinct signal types), and every confidence
\* lies in [0,1].
C5_Confidence ==
  pc = "grouped" =>
    \A i \in 1..Len(features) :
      LET c == features[i].confidence
          s == features[i].signals
          n == Len(s)
          sum == 35 * CountType(s, "folder") + 30 * CountType(s, "route")
                 + 20 * CountType(s, "import-cluster") + 15 * CountType(s, "git-cochange")
          k == Cardinality({t \in SignalTypes : CountType(s, t) > 0})
      IN /\ c.den > 0 /\ 0 <= c.num /\ c.num <= c.den
         /\ (features[i].id # CROSS_CUTTING /\ n > 0) =>
              IF sum + 10 * k * n >= 100 * n
              THEN c.num = c.den
              ELSE c.num * 100 * n = c.den * (sum + 10 * k * n)

\* a cluster with evidence of two signal types has been scored
C5_Witness ==
  /\ pc = "grouped"
  /\ \E i \in 1..Len(features) :
       /\ features[i].id # CROSS_CUTTING
       /\ Cardinality({features[i].signals[j].type : j \in 1..Len(features[i].signals)}) >= 2
       /\ Len(features[i].signals) >= 3

\* ------------------------------------------------------------------------
\* Repo indexer: the import-graph loop of repoIndexer.run
\* ------------------------------------------------------------------------

MaxIndexed == 3
MaxRawImports == 2

\* the source tree the walker may find, in walk order
IndexerTree ==
  << <<"@", "o", "r", "g", "/", "p", "k", "g", ".", "t", "s">>, <<"l", "i", "b", "/", "u", ".", "t", "s">>, <<"s", "r", "c", "/", "a", ".", "t", "s">>, <<"s", "r", "c", "/", "b", ".", "t", "s">>, <<"s", "r", "c", "/", "c", "a", "r", "t", "/", "i", "n", "d", "e", "x", ".", "t", "s">> >>

\* alias tables of detectAliases: keys end with '/'; the target of a
\* package at the root of the repository is empty
IndexerAliases ==
  { <<>>,
    << [alias |-> <<"@", "/">>, target |-> <<>>] >>,
    << [alias |-> <<"@", "/">>, target |-> <<"s", "r", "c", "/">>] >>,
    << [alias |-> <<"@", "/">>, target |-> <<"l", "i", "b", "/">>], [alias |-> <<"@", "/", "c", "a", "r", "t", "/">>, target |-> <<"s", "r", "c", "/", "c", "a", "r", "t", "/">>] >> }

\* import specifiers the extractor may find in a file
Specifiers ==
  { <<".", "/", "b">>, <<".", "/", "c", "a", "r", "t">>, <<".", ".", "/", "l", "i", "b", "/", "u", ".", "t", "s">>, <<".", "/", "a", ".", "j", "s">>, <<"@", "/", "u">>, <<"@", "/", "c", "a", "r", "t", "/", "i", "n", "d", "e", "x">>, <<"@", "o", "r", "g", "/", "p", "k", "g">>, <<"r", "e", "a", "c", "t">>, <<"/", "s", "r", "c", "/", "a">> }

\* the specifiers tried under the alias table of a package at the root
RootSpecifiers == { <<".", "/", "b">>, <<"@", "/", "s", "r", "c", "/", "a">>, <<"@", "/", "u">>, <<"r", "e", "a", "c", "t">> }

SpecifiersFor(aliases) ==
  IF aliases = << [alias |-> <<"@", "/">>, target |-> <<>>] >> THEN RootSpecifiers ELSE Specifiers

\* the raw imports of the files fs, grouped by file in the order of fs
RawImportLists(fs, specifiers, max) ==
  LET R == {[source |-> s, target |-> t] : s \in Range(fs), t \in specifiers}
  IN {r \in SeqsUpTo(R, max) :
        \A i \in 1..(Len(r) - 1) : PosIn(fs, r[i].source) <= PosIn(fs, r[i + 1].source)}

InitIndexer ==
  /\ files \in Inventories(IndexerTree, MaxIndexed)
  /\ config \in {[packages |-> <<>>, conventionPaths |-> <<>>, aliases |-> a] :
                   a \in IndexerAliases}
  /\ rawImports \in RawImportLists(files, SpecifiersFor(config.aliases), MaxRawImports)
  /\ importGraph = <<>>
  /\ resolutions = <<>>
  /\ fileMetrics = <<>>
  /\ impactNodes = <<>>
  /\ impactScored = <<>>
  /\ fileNodes = <<>>
  /\ featureScores = <<>>
  /\ hashIndex = <<>>
  /\ matches = <<>>
  /\ duplications = <<>>
  /\ scanned = 0
  /\ loopI = 0
  /\ loopJ = 0
  /\ skipGit = FALSE
  /\ gitChurns = <<>>
  /\ features = <<>>
  /\ featureMap = <<>>
  /\ fileToFeature = <<>>
  /\ pc = "index"
  /\ agentStatus = <<>>
  /\ microtasks = <<>>
  /\ writers = {}

\* for (const [rel, fileNode] of store.files) for (const edge of rawImports) ...
RunIndexer ==
  /\ pc = "index"
  /\ resolutions' = ResolveAll(rawImports, Range(files), config.aliases)
  /\ importGraph' = PushResolved(importGraph, resolutions')
  /\ pc' = "indexed"
  /\ UNCHANGED <<pipelineVars, files, config, gitChurns, skipGit, rawImports, impactVars, grouperVars, qualityVars, duplicationVars>>

NextIndexer == RunIndexer

SpecIndexer == InitIndexer /\ [][NextIndexer]_vars

\* ------------------------------------------------------------------------
\* Properties of the repo indexer
\* ------------------------------------------------------------------------

\* a specifier that neither starts with '.' or '/' nor begins with a key of
\* the alias table
IsExternal(importPath, aliases) ==
  /\ ~StartsWith(importPath, <<".">>)
  /\ ~StartsWith(importPath, <<"/">>)
  /\ \A i \in 1..Len(aliases) : ~StartsWith(importPath, aliases[i].alias)

\* C6: resolveImportPath returns null for every specifier that neither
\* starts with '.' or '/' nor begins with an alias prefix of the alias table.
C6_ExternalNoEdge ==
  \A i \in 1..Len(resolutions) :
    IsExternal(resolutions[i].importPath, config.aliases) => resolutions[i].resolved = NULL

\* positions of the raw imports that resolved
ResolvedPositions == {i \in 1..Len(resolutions) : resolutions[i].resolved # NULL}

\* C7: after indexing every edge has its source and its target in the
\* indexed set, and every raw specifier contributed at most one edge: the
\* edges are as many as the specifiers that resolved, never more than the
\* raw imports of their source file.
C7_EdgesIndexed ==
  pc = "indexed" =>
    /\ \A i \in 1..Len(importGraph) :
         importGraph[i].source \in Range(files) /\ importGraph[i].target \in Range(files)
    /\ Len(importGraph) = Cardinality(ResolvedPositions)
    /\ Len(importGraph) <= Len(rawImports)
    /\ \A f \in Range(files) :
         Cardinality({i \in 1..Len(importGraph) : importGraph[i].source = f})
           <= Cardinality({i \in 1..Len(rawImports) : rawImports[i].source = f})

\* indexing has met a specifier that resolved and one that did not
C7_Witness ==
  /\ pc = "indexed"
  /\ Len(importGraph) = 1
  /\ Len(rawImports) = 2
  /\ \E i \in 1..Len(resolutions) : resolutions[i].resolved = NULL


\* ------------------------------------------------------------------------
\* Impact analyzer: impactAnalyzer.run
\* ------------------------------------------------------------------------

MaxImporters == 31
MaxFeatureCount == 6
MaxCommitCount == 101
MaxComplexity == 51

\* the file whose inputs vary, and the test file that is its sibling
TargetFile == <<"s", "r", "c", "/", "a", ".", "t", "s">>

SiblingTest == <<"s", "r", "c", "/", "a", ".", "s", "p", "e", "c", ".", "t", "s">>

DecimalDigits == <<"0", "1", "2", "3", "4", "5", "6", "7", "8", "9">>

\* the k-th file that imports the target: m/<k>.ts
Importer(k) ==
  <<"m", "/">> \o <<DecimalDigits[(k \div 10) + 1], DecimalDigits[(k % 10) + 1]>> \o <<".", "t", "s">>

FanInCases == {0, 3, 5, 30, MaxImporters}

FeatureCountCases == {0, 1, 2, 5, MaxFeatureCount}

\* 0 stands for a file without a churn entry
CommitCountCases == {0, 59, 100, MaxCommitCount}

\* 0 stands for a file without metrics
ComplexityCases == {0, 1, 12, 50, MaxComplexity}

\* k files that import the target, a file under a test directory, the
\* sibling test when there is one, and the target, in walk order
ImpactInventory(k, withTest) ==
  [i \in 1..k |-> Importer(i)]
    \o << <<"s", "r", "c", "/", "_", "_", "t", "e", "s", "t", "s", "_", "_", "/", "t", ".", "t", "s">> >>
    \o (IF withTest THEN <<SiblingTest>> ELSE <<>>)
    \o <<TargetFile>>

\* one edge from each importer to the target; the first importer imports
\* it twice when repeat holds
ImpactGraph(k, repeat) ==
  (IF repeat /\ k > 0 THEN <<[source |-> Importer(1), target |-> TargetFile]>> ELSE <<>>)
    \o [i \in 1..k |-> [source |-> Importer(i), target |-> TargetFile]]

\* n clusters that hold the target, the first of them holding the other
\* files as well: the membership the grouper and the --feature filter leave
ImpactFeatures(fs, n) ==
  [i \in 1..n |->
     [createFeature(<<"f", DecimalDigits[i + 1]>>)
        EXCEPT !.files = IF i = 1 THEN fs ELSE <<TargetFile>>]]

InitImpact ==
  /\ \E k \in FanInCases, withTest \in BOOLEAN, repeat \in BOOLEAN :
       /\ files = ImpactInventory(k, withTest)
       /\ importGraph = ImpactGraph(k, repeat)
  /\ \E n \in FeatureCountCases : features = ImpactFeatures(files, n)
  /\ \E c \in CommitCountCases :
       gitChurns = IF c = 0 THEN <<>>
                   ELSE <<[file |-> TargetFile, commitCount |-> c, coChangedWith |-> <<>>]>>
  /\ \E x \in ComplexityCases :
       fileMetrics = IF x = 0 THEN <<>>
                     ELSE <<[file |-> TargetFile, cyclomaticComplexity |-> x]>>
  /\ skipGit = (gitChurns = <<>>)
  /\ config = [packages |-> <<>>, conventionPaths |-> <<>>, aliases |-> <<>>]
  /\ rawImports = <<>>
  /\ resolutions = <<>>
  /\ impactNodes = <<>>
  /\ impactScored = <<>>
  /\ fileNodes = <<>>
  /\ featureScores = <<>>
  /\ hashIndex = <<>>
  /\ matches = <<>>
  /\ duplications = <<>>
  /\ scanned = 0
  /\ loopI = 0
  /\ loopJ = 0
  /\ featureMap = <<>>
  /\ fileToFeature = <<>>
  /\ pc = "impact"
  /\ agentStatus = <<>>
  /\ microtasks = <<>>
  /\ writers = {}

RunImpact ==
  /\ pc = "impact"
  /\ impactScored' = ScoreAll(files, importGraph, features, gitChurns, fileMetrics)
  /\ impactNodes' = SortByScore(PushImpactNodes(impactNodes, impactScored'))
  /\ pc' = "scored"
  /\ UNCHANGED <<pipelineVars, storeInputs, indexerVars, grouperVars, fileMetrics, qualityVars, duplicationVars>>

NextImpact == RunImpact

SpecImpact == InitImpact /\ [][NextImpact]_vars

\* ------------------------------------------------------------------------
\* Properties of the impact analyzer
\* ------------------------------------------------------------------------

\* C8: every ImpactRecord's impactScore is an integer in [0,100].
C8_ScoreBounds ==
  /\ \A i \in 1..Len(impactNodes) : impactNodes[i].impactScore \in 0..100
  /\ \A i \in 1..Len(impactScored) : impactScored[i].impactScore \in 0..100

\* a file with every term at its cap has been scored 100
C8_Witness ==
  /\ pc = "scored"
  /\ \E i \in 1..Len(impactNodes) :
       /\ impactNodes[i].impactScore = 100
       /\ impactNodes[i].fanIn > 30
       /\ impactNodes[i].featureCount > 5
       /\ impactNodes[i].gitChurn > 100


Min(a, b) == IF a < b THEN a ELSE b

\* thirty times the exact sum of the five terms of the formula
ExactSum30(s) ==
  35 * Min(s.fanIn, 30) + 150 * Min(s.featureCount, 5) + 6 * Min(s.gitChurn, 100)
    + (IF s.hasTests THEN 0 ELSE 300) + 6 * Min(s.complexity, 50)

\* C9: for every scored file impactScore is the exact sum of the five terms
\* rounded to the nearest integer, a half going up: sum - 1/2 < score <= sum + 1/2.
C9_RoundedSum ==
  \A i \in 1..Len(impactScored) :
    LET s == impactScored[i]
    IN /\ 60 * s.impactScore > 2 * ExactSum30(s) - 30
       /\ 60 * s.impactScore <= 2 * ExactSum30(s) + 30

\* C10: store.impactNodes holds a record for a scored file exactly when its
\* score is at least 15, one record at most, and none for any other file.
C10_Threshold ==
  pc = "scored" =>
    /\ \A i \in 1..Len(impactScored) :
         LET recs == {j \in 1..Len(impactNodes) : impactNodes[j].file = impactScored[i].file}
         IN IF impactScored[i].impactScore >= 15
            THEN Cardinality(recs) = 1
            ELSE recs = {}
    /\ \A j \in 1..Len(impactNodes) :
         /\ impactNodes[j].impactScore >= 15
         /\ impactNodes[j].file \in Range(files)
         /\ ~isTestFile(impactNodes[j].file)
         /\ \E i \in 1..Len(impactScored) : impactScored[i].file = impactNodes[j].file
    /\ {impactScored[i].file : i \in 1..Len(impactScored)}
         = {f \in Range(files) : ~isTestFile(f) /\ getLanguage(Extname(f)) \notin {"json", "css"}}

\* files scoring 14 or less and files scoring exactly 15 have been met
C10_Witness ==
  /\ pc = "scored"
  /\ \E i \in 1..Len(impactScored) : impactScored[i].impactScore = 15
  /\ \E i \in 1..Len(impactScored) : impactScored[i].impactScore < 15
  /\ Len(impactNodes) > 0
  /\ Len(impactNodes) < Len(impactScored)


\* C11: the severity of every ImpactRecord is fixed by its score: critical
\* iff score >= 70, high iff 50 <= score < 70, medium iff 30 <= score < 50,
\* low iff 15 <= score < 30.
C11_Severity ==
  \A i \in 1..Len(impactNodes) :
    LET n == impactNodes[i]
    IN /\ n.severity \in {"critical", "high", "medium", "low"}
       /\ n.severity = "critical" <=> n.impactScore >= 70
       /\ n.severity = "high" <=> (50 <= n.impactScore /\ n.impactScore < 70)
       /\ n.severity = "medium" <=> (30 <= n.impactScore /\ n.impactScore < 50)
       /\ n.severity = "low" <=> (15 <= n.impactScore /\ n.impactScore < 30)

\* a record scoring exactly 70 and records of two other severities are held
C11_Witness ==
  /\ pc = "scored"
  /\ \E i \in 1..Len(impactNodes) :
       impactNodes[i].impactScore = 70 /\ impactNodes[i].severity = "critical"
  /\ \E i \in 1..Len(impactNodes) : impactNodes[i].severity = "low"

\* C12: when impactAnalyzer.run has finished, store.impactNodes is in
\* non-increasing order of impactScore.
C12_Descending ==
  pc = "scored" =>
    \A i \in 1..(Len(impactNodes) - 1) :
      impactNodes[i].impactScore >= impactNodes[i + 1].impactScore

\* the sort has moved a record in front of records pushed before it
C12_Witness ==
  /\ pc = "scored"
  /\ Len(impactNodes) >= 2
  /\ impactNodes[1].file = TargetFile
  /\ impactNodes[1].impactScore > impactNodes[2].impactScore
  /\ files[1] # TargetFile

\* thirty times the exact sum of the four terms other than churn
ExactSumNoChurn30(s) ==
  35 * Min(s.fanIn, 30) + 150 * Min(s.featureCount, 5)
    + (IF s.hasTests THEN 0 ELSE 300) + 6 * Min(s.complexity, 50)

\* C13: with store.gitChurns empty the scoring completes, every record has
\* churn 0, every non-test, non-asset file is scored, and its score is the
\* nearest integer to the sum of its other four terms.
C13_NoChurn ==
  (pc = "scored" /\ gitChurns = <<>>) =>
    /\ \A i \in 1..Len(impactNodes) : impactNodes[i].gitChurn = 0
    /\ \A i \in 1..Len(impactScored) :
         LET s == impactScored[i]
         IN /\ s.gitChurn = 0
            /\ 60 * s.impactScore >= 2 * ExactSumNoChurn30(s) - 30
            /\ 60 * s.impactScore <= 2 * ExactSumNoChurn30(s) + 30
    /\ {impactScored[i].file : i \in 1..Len(impactScored)}
         = {f \in Range(files) : ~isTestFile(f) /\ getLanguage(Extname(f)) \notin {"json", "css"}}
    /\ \A i \in 1..Len(impactScored) :
         impactScored[i].impactScore >= 15 =>
           \E j \in 1..Len(impactNodes) : impactNodes[j].file = impactScored[i].file

\* files have been scored and reported without any churn data
C13_Witness ==
  /\ pc = "scored"
  /\ gitChurns = <<>>
  /\ Len(impactScored) >= 2
  /\ Len(impactNodes) >= 2

\* ------------------------------------------------------------------------
\* Quality analyzer followed by the impact analyzer, as main runs them
\* ------------------------------------------------------------------------

CartTarget == <<"s", "r", "c", "/", "c", "a", "r", "t", "/", "a", ".", "t", "s">>

CartTest == <<"s", "r", "c", "/", "c", "a", "r", "t", "/", "a", ".", "s", "p", "e", "c", ".", "t", "s">>

CartOther == <<"s", "r", "c", "/", "c", "a", "r", "t", "/", "b", ".", "t", "s">>

QualityFanInCases == {0, 12, MaxImporters}

\* 0 stands for a file without a churn entry
QualityCommitCases == {0, 60, MaxCommitCount}

SmallNode ==
  [loc |-> 10, blank |-> FALSE, cyclomaticComplexity |-> 1, cognitiveComplexity |-> 1,
   maxFunctionLength |-> 5]

BlankNode ==
  [loc |-> 1, blank |-> TRUE, cyclomaticComplexity |-> 1, cognitiveComplexity |-> 0,
   maxFunctionLength |-> 0]

\* what the content of the target file may measure
TargetNodes ==
  { SmallNode,
    [loc |-> 200, blank |-> FALSE, cyclomaticComplexity |-> 5, cognitiveComplexity |-> 5,
     maxFunctionLength |-> 60],
    [loc |-> 1200, blank |-> FALSE, cyclomaticComplexity |-> 40, cognitiveComplexity |-> 50,
     maxFunctionLength |-> 150] }

NoMigration == [detected |-> FALSE, sourceExtensions |-> <<>>, targetExtensions |-> <<>>]

\* store.config.migration as the auto-detection may leave it
Migrations ==
  { NoMigration,
    [detected |-> TRUE, sourceExtensions |-> << <<".", "j", "s">> >>, targetExtensions |-> << <<".", "t", "s">> >>],
    [detected |-> TRUE, sourceExtensions |-> << <<".", "t", "s">> >>, targetExtensions |-> << <<".", "t", "s", "x">> >>],
    [detected |-> TRUE, sourceExtensions |-> << <<".", "v", "u", "e">> >>, targetExtensions |-> << <<".", "t", "s", "x">> >>] }

\* the files of the cart directory, in walk order
CartFiles(withTest, other) ==
  (IF withTest THEN <<CartTest>> ELSE <<>>) \o <<CartTarget>>
    \o (IF other = "absent" THEN <<>> ELSE <<CartOther>>)

CartNodes(withTest, other, node) ==
  (IF withTest THEN <<SmallNode>> ELSE <<>>) \o <<node>>
    \o (IF other = "absent" THEN <<>>
        ELSE IF other = "blank" THEN <<BlankNode>> ELSE <<SmallNode>>)

\* one edge from each importer to the target; the first importer imports
\* it twice when repeat holds
QualityGraph(k, repeat) ==
  (IF repeat /\ k > 0 THEN <<[source |-> Importer(1), target |-> CartTarget]>> ELSE <<>>)
    \o [i \in 1..k |-> [source |-> Importer(i), target |-> CartTarget]]

\* the clusters the grouper leaves: the importers in the fallback cluster,
\* the files of the cart directory in cluster cart
QualityFeatures(k, cart) ==
  (IF k > 0
   THEN <<[createFeature(CROSS_CUTTING) EXCEPT !.files = [i \in 1..k |-> Importer(i)],
                                               !.isCrossCutting = TRUE]>>
   ELSE <<>>)
    \o <<[createFeature(<<"c", "a", "r", "t">>) EXCEPT !.files = cart]>>

InitQuality ==
  /\ \E k \in QualityFanInCases, repeat \in BOOLEAN, withTest \in BOOLEAN,
        other \in {"absent", "present", "blank"}, node \in TargetNodes :
       /\ files = [i \in 1..k |-> Importer(i)] \o CartFiles(withTest, other)
       /\ fileNodes = [i \in 1..k |-> SmallNode] \o CartNodes(withTest, other, node)
       /\ importGraph = QualityGraph(k, repeat)
       /\ features = QualityFeatures(k, CartFiles(withTest, other))
  /\ skipGit \in BOOLEAN
  /\ \E c \in QualityCommitCases :
       gitChurns = IF skipGit \/ c = 0 THEN <<>>
                   ELSE <<[file |-> CartTarget, commitCount |-> c, coChangedWith |-> <<>>]>>
  /\ \E m \in Migrations :
       config = [packages |-> <<>>, conventionPaths |-> <<>>, aliases |-> <<>>,
                 migration |-> m]
  /\ rawImports = <<>>
  /\ resolutions = <<>>
  /\ fileMetrics = <<>>
  /\ impactNodes = <<>>
  /\ impactScored = <<>>
  /\ featureScores = <<>>
  /\ hashIndex = <<>>
  /\ matches = <<>>
  /\ duplications = <<>>
  /\ scanned = 0
  /\ loopI = 0
  /\ loopJ = 0
  /\ featureMap = <<>>
  /\ fileToFeature = <<>>
  /\ pc = "quality"
  /\ agentStatus = <<>>
  /\ microtasks = <<>>
  /\ writers = {}

RunQuality ==
  /\ pc = "quality"
  /\ fileMetrics' = ComputeFileMetrics(fileMetrics, files, fileNodes, importGraph)
  /\ featureScores' = ComputeFeatureScores(featureScores, features, fileMetrics', gitChurns,
                                           skipGit, config.migration)
  /\ pc' = "impact"
  /\ UNCHANGED <<pipelineVars, storeInputs, indexerVars, grouperVars, impactNodes, impactScored,
                 fileNodes, duplicationVars>>

NextQuality == RunQuality \/ RunImpact

SpecQuality == InitQuality /\ [][NextQuality]_vars

\* ------------------------------------------------------------------------
\* Properties of the quality analyzer
\* ------------------------------------------------------------------------

\* number of import edges into f, each repeated edge counted
EdgesInto(f) == Cardinality({i \in 1..Len(importGraph) : importGraph[i].target = f})

\* C14: the fan-in of a file in its ImpactRecord and in its FileMetrics is
\* the number of import edges into it, repeated edges counted one by one,
\* so the two values agree.
C14_FanInAgrees ==
  pc = "scored" =>
    /\ \A i \in 1..Len(fileMetrics) : fileMetrics[i].fanIn = EdgesInto(fileMetrics[i].file)
    /\ \A j \in 1..Len(impactNodes) : impactNodes[j].fanIn = EdgesInto(impactNodes[j].file)
    /\ \A i \in 1..Len(fileMetrics), j \in 1..Len(impactNodes) :
         fileMetrics[i].file = impactNodes[j].file =>
           fileMetrics[i].fanIn = impactNodes[j].fanIn

\* C15: every FeatureScore has architecture, codeQuality, bugRisk and
\* testCoverage in [0,10] and overall in [0,10] (the scores are in tenths).
C15_ScoreRanges ==
  \A i \in 1..Len(featureScores) :
    LET s == featureScores[i]
    IN /\ s.architecture \in 0..100
       /\ s.codeQuality \in 0..100
       /\ s.bugRisk \in 0..100
       /\ s.testCoverage \in 0..100
       /\ s.overall \in 0..100

\* a feature has been scored 10 overall under a migration, another has
\* lost most of its architecture score
C15_Witness ==
  /\ pc = "impact"
  /\ HasMigration(config.migration)
  /\ \E i \in 1..Len(featureScores) :
       featureScores[i].overall = 100 /\ featureScores[i].testCoverage = 100
  /\ Len(featureScores) >= 1

\* C16: the grade of every FeatureScore is the one its reported overall
\* fixes: overall >= 8.0 gives A, else >= 6.0 B, else >= 4.0 C, else >= 2.0 D,
\* else F (the reported overall is in tenths).
C16_GradeOfOverall ==
  \A i \in 1..Len(featureScores) :
    LET s == featureScores[i]
    IN s.grade = (IF s.overall >= 80 THEN "A" ELSE IF s.overall >= 60 THEN "B"
                  ELSE IF s.overall >= 40 THEN "C" ELSE IF s.overall >= 20 THEN "D"
                  ELSE "F")

\* the member files of the feature a score is for that have metrics
ScoredMembers(featureId) ==
  LET f == features[CHOOSE i \in 1..Len(features) : features[i].id = featureId]
      HasM(x) == HasMetrics(fileMetrics, x)
  IN SelectSeq(f.files, HasM)

\* a file that is a test or has a sibling test file among the indexed files
TestedOrTest(f) ==
  IsSpecOrTest(f) \/ \E i \in 1..Len(files) : IsSpecOrTest(files[i]) /\ TestSource(files[i]) = f

\* C17: the test-coverage score of a feature is 10 x (scored member files
\* that are tests or have a sibling test) / (scored member files), rounded
\* (the score is in tenths).
C17_TestCoverage ==
  \A i \in 1..Len(featureScores) :
    LET members == ScoredMembers(featureScores[i].featureId)
        n == Len(members)
        covered == Cardinality({j \in 1..n : TestedOrTest(members[j])})
    IN featureScores[i].testCoverage = 10 * ((20 * covered + n) \div (2 * n))

\* ------------------------------------------------------------------------
\* Duplication analyzer: the matching scan over the hash index and the
\* final filter by file pair
\* ------------------------------------------------------------------------

MIN_CHUNK_SIZE == 6

MAX_DUPLICATES == 200

\* largest number of files that share one chunk
MaxDupFiles == 21

\* the characters of the file names used here, in the order of their
\* UTF-16 code units
CodeUnitOrder == <<"-", ".", "/", "0", "1", "2", "3", "4", "5", "6", "7", "8", "9", "_", "a", "b", "c", "d", "e", "f", "g", "h", "i", "j", "k", "l", "m", "n", "o", "p", "q", "r", "s", "t", "u", "v", "w", "x", "y", "z", "|">>

CodeUnit(c) == CHOOSE k \in 1..Len(CodeUnitOrder) : CodeUnitOrder[k] = c

\* a < b as Array.prototype.sort without a comparator orders two strings
RECURSIVE StrLess(_, _)
StrLess(a, b) ==
  IF b = <<>> THEN FALSE
  ELSE IF a = <<>> THEN TRUE
  ELSE IF Head(a) = Head(b) THEN StrLess(Tail(a), Tail(b))
  ELSE CodeUnit(Head(a)) < CodeUnit(Head(b))

\* [a, b].sort()
SortPair(a, b) == IF StrLess(b, a) THEN <<b, a>> ELSE <<a, b>>

\* a key that also tells the chunks of one file pair apart
PairKeyWithHash(m) ==
  LET sorted == SortPair(m.fileA, m.fileB)
  IN sorted[1] \o <<"|">> \o sorted[2] \o <<"|">> \o m.hash

\* [m.fileA, m.fileB].sort().join('|')
PairKey(m) ==
  LET sorted == SortPair(m.fileA, m.fileB)
  IN sorted[1] \o <<"|">> \o sorted[2]

\* the keys of fileGroups, in insertion order
FileList(entries) ==
  LET First(k) == \A n \in 1..(k - 1) : entries[n].file # entries[k].file
      firsts == SelectSeq([k \in 1..Len(entries) |-> k], First)
  IN [k \in 1..Len(firsts) |-> entries[firsts[k]].file]

\* fileGroups.get(file)[0]
FirstEntry(entries, file) ==
  entries[CHOOSE k \in 1..Len(entries) :
            /\ entries[k].file = file
            /\ \A n \in 1..(k - 1) : entries[n].file # file]

\* the match pushed for the files a and b of one hash
MatchOf(rec, a, b) ==
  LET entryA == FirstEntry(rec.entries, a)
      entryB == FirstEntry(rec.entries, b)
  IN [fileA |-> entryA.file, fileB |-> entryB.file,
      lineStartA |-> entryA.lineStart, lineStartB |-> entryB.lineStart,
      lineCount |-> MIN_CHUNK_SIZE, hash |-> rec.hash, snippet |-> entryA.snippet]

\* a cap that lets one more match through
CapReachedAbove(count) == count > MAX_DUPLICATES

\* matches.length >= MAX_DUPLICATES
CapReached(count) == count >= MAX_DUPLICATES

\* matches.filter(...) with the set seen: a match is kept when no earlier
\* match has its key
DedupeMatches(ms) ==
  LET keys == [k \in 1..Len(ms) |-> PairKey(ms[k])]
      Kept(k) == \A n \in 1..(k - 1) : keys[n] # keys[k]
      kept == SelectSeq([k \in 1..Len(ms) |-> k], Kept)
  IN [k \in 1..Len(kept) |-> ms[kept[k]]]

\* ---- the hash index the first loop may leave ----

\* the k-th file of a family that shares one chunk: d/<k>.ts
DupFile(k) ==
  <<"d", "/">> \o <<DecimalDigits[(k \div 10) + 1], DecimalDigits[(k % 10) + 1]>> \o <<".", "t", "s">>

Family(k) == [n \in 1..k |-> DupFile(n)]

\* a file that repeats a chunk of its own
SoloFile == <<"s", "/", "o", "n", "e", ".", "t", "s">>

\* four files whose names hold the character the pair key is joined with
PipeFiles == << <<"x", ".", "t", "s">>, <<"y", ".", "t", "s", "|", "z", ".", "t", "s">>, <<"x", ".", "t", "s", "|", "y", ".", "t", "s">>, <<"z", ".", "t", "s">> >>

DupFamilyCases == {0, 1, 2, 3, MaxDupFiles - 1, MaxDupFiles}

\* an entry of the index; the snippet is named after the chunk
Entry(hash, file, lineStart) == [file |-> file, lineStart |-> lineStart, snippet |-> hash]

\* one chunk at line 1 of every file of the family
FamilyHash(fam) ==
  [hash |-> <<"h", "1">>, entries |-> [k \in 1..Len(fam) |-> Entry(<<"h", "1">>, fam[k], 1)]]

\* a second chunk, twice in the first file of the family and once in the
\* second
RepeatHash(fam) ==
  [hash |-> <<"h", "2">>,
   entries |-> <<Entry(<<"h", "2">>, fam[1], 41), Entry(<<"h", "2">>, fam[1], 81),
                 Entry(<<"h", "2">>, fam[2], 41)>>]

\* a chunk with three occurrences, all in one file
SoloHash ==
  [hash |-> <<"h", "3">>,
   entries |-> <<Entry(<<"h", "3">>, SoloFile, 1), Entry(<<"h", "3">>, SoloFile, 41),
                 Entry(<<"h", "3">>, SoloFile, 81)>>]

\* one chunk shared by the first two of the four files, another by the
\* last two
PipeHashes(pipe) ==
  << [hash |-> <<"h", "4">>, entries |-> <<Entry(<<"h", "4">>, pipe[1], 1), Entry(<<"h", "4">>, pipe[2], 1)>>],
     [hash |-> <<"h", "5">>, entries |-> <<Entry(<<"h", "5">>, pipe[3], 1), Entry(<<"h", "5">>, pipe[4], 1)>>] >>

\* the files in the order the walk stored them
DupScan(k, reversed, extrasFirst, withSolo, withPipe) ==
  LET fam == IF reversed THEN Reverse(Family(k)) ELSE Family(k)
      extra == (IF withSolo THEN <<SoloFile>> ELSE <<>>)
                 \o (IF withPipe THEN (IF reversed THEN Reverse(PipeFiles) ELSE PipeFiles)
                     ELSE <<>>)
  IN IF extrasFirst THEN extra \o fam ELSE fam \o extra

\* the index the first loop builds from them: hashes in the order of the
\* first file that holds them, entries in file order
DupIndex(k, reversed, extrasFirst, withRepeat, withSolo, withPipe) ==
  LET fam == IF reversed THEN Reverse(Family(k)) ELSE Family(k)
      ofFamily == (IF k >= 1 THEN <<FamilyHash(fam)>> ELSE <<>>)
                    \o (IF withRepeat /\ k >= 2 THEN <<RepeatHash(fam)>> ELSE <<>>)
      ofExtra == (IF withSolo THEN <<SoloHash>> ELSE <<>>)
                   \o (IF withPipe
                       THEN PipeHashes(IF reversed THEN Reverse(PipeFiles) ELSE PipeFiles)
                       ELSE <<>>)
  IN IF extrasFirst THEN ofExtra \o ofFamily ELSE ofFamily \o ofExtra

InitDuplication ==
  /\ \E k \in DupFamilyCases, reversed \in BOOLEAN, extrasFirst \in BOOLEAN,
        withRepeat \in BOOLEAN, withSolo \in BOOLEAN, withPipe \in BOOLEAN :
       /\ files = DupScan(k, reversed, extrasFirst, withSolo, withPipe)
       /\ hashIndex = DupIndex(k, reversed, extrasFirst, withRepeat, withSolo, withPipe)
  /\ config = [packages |-> <<>>, conventionPaths |-> <<>>, aliases |-> <<>>]
  /\ importGraph = <<>>
  /\ gitChurns = <<>>
  /\ skipGit = FALSE
  /\ features = <<>>
  /\ rawImports = <<>>
  /\ resolutions = <<>>
  /\ fileMetrics = <<>>
  /\ impactNodes = <<>>
  /\ impactScored = <<>>
  /\ fileNodes = <<>>
  /\ featureScores = <<>>
  /\ matches = <<>>
  /\ duplications = <<>>
  /\ scanned = 0
  /\ loopI = 1
  /\ loopJ = 2
  /\ featureMap = <<>>
  /\ fileToFeature = <<>>
  /\ pc = "match"
  /\ agentStatus = <<>>
  /\ microtasks = <<>>
  /\ writers = {}

\* a hash with fewer than two entries, or with entries of one file only
SkipHash ==
  /\ pc = "match"
  /\ scanned < Len(hashIndex)
  /\ LET entries == hashIndex[scanned + 1].entries
     IN Len(entries) < 2 \/ Len(FileList(entries)) < 2
  /\ scanned' = scanned + 1
  /\ loopI' = 1
  /\ loopJ' = 2
  /\ UNCHANGED <<pipelineVars, storeInputs, indexerVars, grouperVars, impactVars, qualityVars,
                 hashIndex, matches, duplications, pc>>

\* one turn of the inner loop: push the match of fileList[i] and
\* fileList[j], then break out of the three loops or move on
PushMatch ==
  /\ pc = "match"
  /\ scanned < Len(hashIndex)
  /\ LET rec == hashIndex[scanned + 1]
         fileList == FileList(rec.entries)
     IN /\ Len(rec.entries) >= 2
        /\ Len(fileList) >= 2
        /\ matches' = Append(matches, MatchOf(rec, fileList[loopI], fileList[loopJ]))
        /\ IF CapReached(Len(matches'))
           THEN pc' = "dedupe" /\ UNCHANGED <<scanned, loopI, loopJ>>
           ELSE /\ pc' = pc
                /\ IF loopJ < Len(fileList)
                   THEN loopJ' = loopJ + 1 /\ UNCHANGED <<scanned, loopI>>
                   ELSE IF loopI + 1 < Len(fileList)
                   THEN loopI' = loopI + 1 /\ loopJ' = loopI + 2 /\ UNCHANGED scanned
                   ELSE scanned' = scanned + 1 /\ loopI' = 1 /\ loopJ' = 2
  /\ UNCHANGED <<pipelineVars, storeInputs, indexerVars, grouperVars, impactVars, qualityVars,
                 hashIndex, duplications>>

\* the filter by file pair, once the scan has ended or was broken off
RunDedupe ==
  /\ pc = "dedupe" \/ (pc = "match" /\ scanned = Len(hashIndex))
  /\ duplications' = DedupeMatches(matches)
  /\ pc' = "deduped"
  /\ UNCHANGED <<pipelineVars, storeInputs, indexerVars, grouperVars, impactVars, qualityVars,
                 hashIndex, matches, scanned, loopI, loopJ>>

NextDuplication == SkipHash \/ PushMatch \/ RunDedupe

SpecDuplication == InitDuplication /\ [][NextDuplication]_vars

\* ------------------------------------------------------------------------
\* Properties of the duplication analyzer
\* ------------------------------------------------------------------------

\* the two files of a match, as a set
PairOf(m) == {m.fileA, m.fileB}

\* C18: every entry of store.duplications names two distinct files, and no
\* two entries name the same unordered file pair.
C18_DistinctPairs ==
  /\ \A k \in 1..Len(duplications) : duplications[k].fileA # duplications[k].fileB
  /\ \A k, n \in 1..Len(duplications) :
       k # n => PairOf(duplications[k]) # PairOf(duplications[n])

\* the scan emitted two matches for one file pair and the result holds one
C18_Witness ==
  /\ pc = "deduped"
  /\ \E k, n \in 1..Len(matches) : k < n /\ PairOf(matches[k]) = PairOf(matches[n])
  /\ Len(duplications) >= 1
  /\ Len(duplications) < Len(matches)

\* the files with an entry under one hash
FilesOf(rec) == {rec.entries[k].file : k \in 1..Len(rec.entries)}

\* C19: when the cap of 200 matches is not reached, the result holds
\* exactly one match for every two distinct files with an entry under one
\* hash, whatever the scan order, and every match of the result is for two
\* distinct files with an entry under its hash (a hash with entries in one
\* file only gives none).
C19_OnePerPair ==
  (pc = "deduped" /\ Len(matches) < MAX_DUPLICATES) =>
    /\ \A h \in 1..Len(hashIndex) : \A a, b \in FilesOf(hashIndex[h]) :
         a # b =>
           Cardinality({k \in 1..Len(duplications) : PairOf(duplications[k]) = {a, b}}) = 1
    /\ \A k \in 1..Len(duplications) : \E h \in 1..Len(hashIndex) :
         /\ hashIndex[h].hash = duplications[k].hash
         /\ duplications[k].fileA # duplications[k].fileB
         /\ PairOf(duplications[k]) \subseteq FilesOf(hashIndex[h])

\* C20: the scan never emits more than 200 matches, emits nothing once 200
\* have been emitted, and store.duplications never has more than 200
\* entries.
C20_Cap ==
  /\ [](Len(matches) <= MAX_DUPLICATES /\ Len(duplications) <= MAX_DUPLICATES)
  /\ [][Len(matches) >= MAX_DUPLICATES => matches' = matches]_vars

\* the scan was broken off at 200 matches with a hash of more file pairs
\* than that in the index, and the result was stored
C20_Witness ==
  /\ pc = "deduped"
  /\ Len(matches) = MAX_DUPLICATES
  /\ scanned < Len(hashIndex)
  /\ \E h \in 1..Len(hashIndex) : Cardinality(FilesOf(hashIndex[h])) = MaxDupFiles
  /\ Len(duplications) >= MAX_DUPLICATES - 3

\* ------------------------------------------------------------------------
\* Further properties of the feature grouper
\* ------------------------------------------------------------------------

\* C27: signal 4 assigns a file only if it is among the first 10 co-changed
\* files of a file that was assigned before the pass began, whatever the
\* order of the churn map.
C27_CoChangeOneHop ==
  [][pc = "signal4" =>
       \A f \in (DOMAIN fileToFeature') \ (DOMAIN fileToFeature) :
         \E i \in 1..Len(gitChurns) :
           /\ gitChurns[i].file \in DOMAIN fileToFeature
           /\ f \in Range(SliceTo(gitChurns[i].coChangedWith, TOP_COCHANGED))]_vars

\* C29: the entry points of every cluster are members of the cluster, and
\* no file is an entry point twice.
C29_EntryPoints ==
  pc = "grouped" =>
    \A i \in 1..Len(features) :
      LET e == features[i].entryPoints
      IN /\ Range(e) \subseteq Range(features[i].files)
         /\ \A j, k \in 1..Len(e) : e[j] = e[k] => j = k

\* a cluster that signal 1 or signal 2 created: it has a folder or a route
\* signal
HasOwnSignal(feature) ==
  \E j \in 1..Len(feature.signals) : feature.signals[j].type \in {"folder", "route"}

\* C30: every cluster signal 1 or signal 2 created ends with confidence of
\* at least 0.3, the only cluster with isCrossCutting set is the fallback
\* cluster, and the confidence step moves no file between clusters.
C30_NeverFlagged ==
  /\ [](pc = "grouped" =>
          \A i \in 1..Len(features) :
            /\ HasOwnSignal(features[i]) =>
                 10 * features[i].confidence.num >= 3 * features[i].confidence.den
            /\ features[i].isCrossCutting => features[i].id = CROSS_CUTTING)
  /\ [][pc = "confidence" =>
          /\ fileToFeature' = fileToFeature
          /\ Len(featureMap') = Len(featureMap)
          /\ \A i \in 1..Len(featureMap) :
               /\ featureMap'[i].id = featureMap[i].id
               /\ featureMap'[i].files = featureMap[i].files
               /\ featureMap'[i].isCrossCutting = featureMap[i].isCrossCutting]_vars

\* a cluster with a folder signal and co-change signals has been scored
\* below one half, beside the fallback cluster
C30_Witness ==
  /\ pc = "grouped"
  /\ \E i \in 1..Len(features) :
       /\ HasOwnSignal(features[i])
       /\ \E j \in 1..Len(features[i].signals) : features[i].signals[j].type = "git-cochange"
       /\ 2 * features[i].confidence.num < features[i].confidence.den
  /\ \E i \in 1..Len(features) : features[i].isCrossCutting

\* ------------------------------------------------------------------------
\* Further properties of the repo indexer
\* ------------------------------------------------------------------------

\* the position of the first alias of the table whose prefix begins the
\* specifier, 0 when there is none
FirstAlias(importPath, aliases) ==
  LET hits == {i \in 1..Len(aliases) : StartsWith(importPath, aliases[i].alias)}
  IN IF hits = {} THEN 0 ELSE CHOOSE i \in hits : \A j \in hits : i <= j

\* the path an internal specifier stands for: the alias prefix replaced by
\* its target, or a relative specifier joined onto the directory of the
\* importer
IntendedPath(importPath, fromFile, aliases) ==
  LET a == FirstAlias(importPath, aliases)
  IN IF a # 0
     THEN aliases[a].target \o SliceFrom(importPath, Len(aliases[a].alias))
     ELSE IF StartsWith(importPath, <<".">>)
     THEN PathJoin(Dirname(fromFile), importPath)
     ELSE importPath

\* the candidates in probing order: the exact path, the path with each
\* extension, with /index and each index extension, and with its own
\* extension stripped
ProbeOrder(path) ==
  <<path>>
    \o << path \o <<".", "t", "s">>, path \o <<".", "t", "s", "x">>, path \o <<".", "j", "s">>, path \o <<".", "j", "s", "x">>,
          path \o <<".", "v", "u", "e">>, path \o <<".", "s", "v", "e", "l", "t", "e">>, path \o <<".", "m", "j", "s">> >>
    \o << path \o <<"/", "i", "n", "d", "e", "x", ".", "t", "s">>, path \o <<"/", "i", "n", "d", "e", "x", ".", "t", "s", "x">>, path \o <<"/", "i", "n", "d", "e", "x", ".", "j", "s">>,
          path \o <<"/", "i", "n", "d", "e", "x", ".", "j", "s", "x">>, path \o <<"/", "i", "n", "d", "e", "x", ".", "v", "u", "e">> >>
    \o <<StripExt(path)>>

\* the first candidate that is indexed, NULL when none is
FirstIndexed(candidates, indexed) ==
  LET hits == {i \in 1..Len(candidates) : candidates[i] \in indexed}
  IN IF hits = {} THEN NULL
     ELSE candidates[CHOOSE i \in hits : \A j \in hits : i <= j]

\* C26: for an internal specifier resolveImportPath substitutes the first
\* alias of the table that the specifier matches (or joins a relative
\* specifier onto the directory of the importer) and returns the first
\* indexed candidate in probing order, or no edge when none is indexed.
C26_ProbeOrder ==
  \A i \in 1..Len(resolutions) :
    LET r == resolutions[i]
    IN ~IsExternal(r.importPath, config.aliases) =>
         r.resolved = FirstIndexed(ProbeOrder(IntendedPath(r.importPath, r.source,
                                                           config.aliases)),
                                   Range(files))

\* ------------------------------------------------------------------------
\* Duplication analyzer: the sliding windows that build the hash index,
\* followed by the matching scan and the filter
\* ------------------------------------------------------------------------

MAX_CHUNK_SIZE == 30

\* a chunk shorter than this is not hashed
CHUNK_MIN_LENGTH == 100

\* String.prototype.trim, for lines indented with spaces
RECURSIVE TrimStart(_)
TrimStart(s) == IF s # <<>> /\ Head(s) = " " THEN TrimStart(Tail(s)) ELSE s

Trim(s) == Reverse(TrimStart(Reverse(TrimStart(s))))

\* l && !l.startsWith('//') && !l.startsWith('*') && !l.startsWith('import')
KeepLine(l) ==
  /\ l # <<>>
  /\ ~StartsWith(l, <<"/", "/">>)
  /\ ~StartsWith(l, <<"*">>)
  /\ ~StartsWith(l, <<"i", "m", "p", "o", "r", "t">>)

\* Array.prototype.join('\n'); the line break is the one-character string "\n"
RECURSIVE JoinLines(_)
JoinLines(ls) ==
  IF ls = <<>> THEN <<>>
  ELSE IF Len(ls) = 1 THEN Head(ls)
  ELSE Head(ls) \o <<"\n">> \o JoinLines(Tail(ls))

\* the chunk of the window of chunkSize lines from line start (from 0)
ChunkOf(lines, start, chunkSize) ==
  LET window == SubSeq(lines, start + 1, start + chunkSize)
      trimmed == [k \in 1..Len(window) |-> Trim(window[k])]
  IN JoinLines(SelectSeq(trimmed, KeepLine))

\* createHash('sha256').update(chunk).digest('hex').slice(0, 16): the
\* digest is taken to tell all chunks apart, so the chunk stands for it
ChunkHash(chunk) == chunk

\* the windows of a file of n lines as <<chunkSize, start>>, in loop order
WindowsOf(n) ==
  LET all == {w \in (MIN_CHUNK_SIZE..Min(MAX_CHUNK_SIZE, n)) \X (0..n) :
                /\ (w[1] - MIN_CHUNK_SIZE) % 4 = 0
                /\ w[2] % 3 = 0
                /\ w[2] <= n - w[1]}
      Rank(w) == Cardinality({v \in all : v[1] < w[1] \/ (v[1] = w[1] /\ v[2] <= w[2])})
  IN [k \in 1..Cardinality(all) |-> CHOOSE w \in all : Rank(w) = k]

Abs(x) == IF x < 0 THEN 0 - x ELSE x

\* entries.some(e => e.file === rel && Math.abs(e.lineStart - start) < chunkSize)
Nearby(entries, rel, start, chunkSize) ==
  \E k \in 1..Len(entries) :
    entries[k].file = rel /\ Abs(entries[k].lineStart - start) < chunkSize

\* body of the inner loop for one window; an entry also keeps the size of
\* its window, which the code does not store
IndexWindow(index, rel, lines, start, chunkSize) ==
  LET chunk == ChunkOf(lines, start, chunkSize)
      hash == ChunkHash(chunk)
      has == \E k \in 1..Len(index) : index[k].hash = hash
      index1 == IF has THEN index ELSE Append(index, [hash |-> hash, entries |-> <<>>])
      at == CHOOSE k \in 1..Len(index1) : index1[k].hash = hash
      entry == [file |-> rel, lineStart |-> start + 1,
                snippet |-> JoinLines(SubSeq(lines, start + 1, start + Min(3, chunkSize))),
                chunkSize |-> chunkSize]
  IN IF Len(chunk) < CHUNK_MIN_LENGTH THEN index
     ELSE IF Nearby(index1[at].entries, rel, start, chunkSize) THEN index1
     ELSE [k \in 1..Len(index1) |->
             IF k = at THEN [hash |-> hash, entries |-> Append(index1[k].entries, entry)]
             ELSE index1[k]]

RECURSIVE IndexWindows(_, _, _, _)
IndexWindows(index, rel, lines, windows) ==
  IF windows = <<>> THEN index
  ELSE IndexWindows(IndexWindow(index, rel, lines, Head(windows)[2], Head(windows)[1]),
                    rel, lines, Tail(windows))

\* the files the first loop passes over
SkippedByIndex(node) ==
  \/ node.language \in {"json", "css"}
  \/ node.loc < MIN_CHUNK_SIZE
  \/ node.lines = << <<>> >>

\* body of the first loop for one file
IndexFile(index, rel, node) ==
  IF SkippedByIndex(node) THEN index
  ELSE IndexWindows(index, rel, node.lines, WindowsOf(Len(node.lines)))

RECURSIVE BuildHashIndex(_, _, _)
BuildHashIndex(index, fs, nodes) ==
  IF fs = <<>> THEN index
  ELSE BuildHashIndex(IndexFile(index, Head(fs), Head(nodes)), Tail(fs), Tail(nodes))

\* ---- the contents the files may have ----

\* a statement of 20 characters
LongLine(k) == <<"l", "e", "t", " ", "l", "o", "n", "g", "n", "a", "m", "e">> \o <<DecimalDigits[k + 1]>> \o <<" ", "=", " ", "1", "0", "0", ";">>

\* a statement of 12 characters
ShortLine(k) == <<"l", "e", "t", " ", "a", "b">> \o <<DecimalDigits[k + 1]>> \o <<" ", "=", " ", "1", ";">>

LongSix == [k \in 1..6 |-> LongLine(k)]

\* countLines and getLanguage of a TypeScript file with these lines
NodeOf(lines) ==
  [loc |-> IF lines = << <<>> >> THEN 0 ELSE Len(lines), language |-> "typescript",
   lines |-> lines]

ChunkContents ==
  { [k \in 1..10 |-> ShortLine(k - 1)],
    LongSix,
    LongSix \o LongSix,
    << <<"/", "/", " ", "c", "a", "r", "t">>, <<"i", "m", "p", "o", "r", "t", " ", "x", " ", "f", "r", "o", "m", " ", "'", "x", "'">>, <<>> >> \o [k \in 1..6 |-> <<" ", " ">> \o LongLine(k)],
    << LongLine(1), LongLine(2), LongLine(3) >> }

InitChunks ==
  /\ files = <<CartTest, CartTarget, CartOther>>
  /\ fileNodes \in [1..3 -> {NodeOf(c) : c \in ChunkContents}]
  /\ config = [packages |-> <<>>, conventionPaths |-> <<>>, aliases |-> <<>>]
  /\ importGraph = <<>>
  /\ gitChurns = <<>>
  /\ skipGit = FALSE
  /\ features = <<>>
  /\ rawImports = <<>>
  /\ resolutions = <<>>
  /\ fileMetrics = <<>>
  /\ impactNodes = <<>>
  /\ impactScored = <<>>
  /\ featureScores = <<>>
  /\ hashIndex = <<>>
  /\ matches = <<>>
  /\ duplications = <<>>
  /\ scanned = 0
  /\ loopI = 1
  /\ loopJ = 2
  /\ featureMap = <<>>
  /\ fileToFeature = <<>>
  /\ pc = "hash"
  /\ agentStatus = <<>>
  /\ microtasks = <<>>
  /\ writers = {}

\* the first loop of duplicationAnalyzer.run
RunHashIndex ==
  /\ pc = "hash"
  /\ hashIndex' = BuildHashIndex(hashIndex, files, fileNodes)
  /\ pc' = "match"
  /\ UNCHANGED <<pipelineVars, storeInputs, indexerVars, grouperVars, impactVars, qualityVars,
                 matches, duplications, scanned, loopI, loopJ>>

NextChunks == RunHashIndex \/ SkipHash \/ PushMatch \/ RunDedupe

SpecChunks == InitChunks /\ [][NextChunks]_vars

\* ------------------------------------------------------------------------
\* Properties of the hash index
\* ------------------------------------------------------------------------

WindowSizes == {6, 10, 14, 18, 22, 26, 30}

\* C21: the lineCount of a match is the window size, one of 6, 10, ..., 30,
\* of the chunk whose hash produced the match.
C21_LineCount ==
  \A d \in 1..Len(duplications) :
    /\ duplications[d].lineCount \in WindowSizes
    /\ \E h \in 1..Len(hashIndex) :
         /\ hashIndex[h].hash = duplications[d].hash
         /\ \E k \in 1..Len(hashIndex[h].entries) :
              LET e == hashIndex[h].entries[k]
              IN /\ e.file = duplications[d].fileA
                 /\ e.lineStart = duplications[d].lineStartA
                 /\ e.chunkSize = duplications[d].lineCount

\* a file the duplicate detector is to leave out
Ineligible(f) ==
  LET node == fileNodes[CHOOSE i \in 1..Len(files) : files[i] = f]
  IN isTestFile(f) \/ node.language \in {"json", "css"} \/ node.loc < MIN_CHUNK_SIZE

\* C22: no test file, no json or css file and no file of fewer than 6 lines
\* has an entry in the hash index or is fileA or fileB of a match.
C22_Eligible ==
  /\ \A h \in 1..Len(hashIndex) : \A k \in 1..Len(hashIndex[h].entries) :
       ~Ineligible(hashIndex[h].entries[k].file)
  /\ \A d \in 1..Len(duplications) :
       ~Ineligible(duplications[d].fileA) /\ ~Ineligible(duplications[d].fileB)

\* the entries of file f under the hash of record rec, as <<start, size>>
\* with the start counted from 0
Recorded(rec, f) ==
  {<<rec.entries[k].lineStart - 1, rec.entries[k].chunkSize>> :
     k \in {n \in 1..Len(rec.entries) : rec.entries[n].file = f}}

\* C28: for one hash no two recorded occurrences of one file overlap, and a
\* window whose chunk is hashed is recorded unless a recorded occurrence of
\* the same file and hash starts less than its chunk size away.
C28_SameFile ==
  pc # "hash" =>
    \A i \in 1..Len(files) :
      ~SkippedByIndex(fileNodes[i]) =>
        LET lines == fileNodes[i].lines
            windows == WindowsOf(Len(lines))
        IN /\ \A h \in 1..Len(hashIndex) :
                \A v, w \in Recorded(hashIndex[h], files[i]) :
                  v # w => (v[1] + v[2] <= w[1] \/ w[1] + w[2] <= v[1])
           /\ \A n \in 1..Len(windows) :
                LET size == windows[n][1]
                    start == windows[n][2]
                    chunk == ChunkOf(lines, start, size)
                IN Len(chunk) >= CHUNK_MIN_LENGTH =>
                     \E h \in 1..Len(hashIndex) :
                       /\ hashIndex[h].hash = ChunkHash(chunk)
                       /\ \/ <<start, size>> \in Recorded(hashIndex[h], files[i])
                          \/ \E v \in Recorded(hashIndex[h], files[i]) :
                               v # <<start, size>> /\ Abs(v[1] - start) < size

\* ------------------------------------------------------------------------
\* main: the phases, runAgent and the groups handed to Promise.all
\* ------------------------------------------------------------------------

\* the most agents whose run throws in one execution
MaxFailures == 2

Agents ==
  {"repoIndexer", "featureGrouper", "qualityAnalyzer", "bugRiskAnalyzer",
   "featureFlagAnalyzer", "duplicationAnalyzer", "impactAnalyzer", "deadCodeDetector",
   "migrationTracker", "bridgeAnalyzer", "storeComplexityAnalyzer",
   "configDriftDetector", "recommendationAgent"}

groupA == <<"qualityAnalyzer", "bugRiskAnalyzer", "featureFlagAnalyzer">>

groupB == <<"duplicationAnalyzer", "impactAnalyzer", "deadCodeDetector">>

groupC(cfg) ==
  (IF cfg.migration # NULL /\ cfg.migration.detected THEN <<"migrationTracker">> ELSE <<>>)
  \o <<"bridgeAnalyzer">>
  \o (IF Len(cfg.stateManagement) > 0 THEN <<"storeComplexityAnalyzer">> ELSE <<>>)
  \o (IF Len(cfg.packages) > 1 THEN <<"configDriftDetector">> ELSE <<>>)

\* the agents main hands to runAgent at position p, in the order of the calls
Stage(p, cfg) ==
  CASE p = "phase1" -> <<"repoIndexer">>
    [] p = "phase2" -> <<"featureGrouper">>
    [] p = "groupA" -> groupA
    [] p = "groupB" -> groupB
    [] p = "groupC" -> groupC(cfg)
    [] p = "phase4" -> <<"recommendationAgent">>
    [] OTHER -> <<>>

\* the position of main after the await of position p
NextPosition(p) ==
  CASE p = "phase1" -> "git"
    [] p = "git" -> "phase2"
    [] p = "phase2" -> "groupA"
    [] p = "groupA" -> "groupB"
    [] p = "groupB" -> "groupC"
    [] p = "groupC" -> "phase4"
    [] p = "phase4" -> "summary"
    [] OTHER -> "done"

\* the store collections the run of an agent assigns, or whose elements it
\* changes, when it runs to its end
AgentWrites(agent, risky, written) ==
  CASE agent = "repoIndexer" -> {"packages", "files", "importGraph", "symbols", "entryPoints"}
    [] agent = "featureGrouper" -> {"features"}
    [] agent = "qualityAnalyzer" -> {"fileMetrics", "featureScores"}
    [] agent = "bugRiskAnalyzer" ->
         IF risky /\ <<"qualityAnalyzer", "fileMetrics">> \in written
         THEN {"fileMetrics"} ELSE {}
    [] agent = "featureFlagAnalyzer" -> {"featureFlags"}
    [] agent = "duplicationAnalyzer" -> {"duplications"}
    [] agent = "impactAnalyzer" -> {"impactNodes"}
    [] agent = "deadCodeDetector" -> {"deadCode"}
    [] agent = "migrationTracker" -> {"migrationEntries"}
    [] agent = "bridgeAnalyzer" -> {"bridgeConnections"}
    [] agent = "storeComplexityAnalyzer" -> {"storeModules"}
    [] agent = "configDriftDetector" -> {"configDiffs"}
    [] OTHER -> {}

\* the agents whose run has thrown
Thrown == {a \in Agents : agentStatus[a] \in {"rejected", "failed", "escaped"}}

\* what the promise of agent.run(store) can be, and what the run wrote before
Outcomes(agent, written) ==
  LET all == {AgentWrites(agent, risky, written) : risky \in BOOLEAN}
  IN {[status |-> "resolved", written |-> w] : w \in all}
     \cup (IF Cardinality(Thrown) < MaxFailures
           THEN {[status |-> "rejected", written |-> w] : w \in all \cup {{}}}
           ELSE {})

\* runAgent after its await with the catch left out
ResumedWithoutCatch(status) == IF status = "rejected" THEN "escaped" ELSE "completed"

\* runAgent after its await: a rejection is caught and logged, and the call
\* returns either way
Resumed(status) == IF status = "rejected" THEN "failed" ELSE "completed"

\* the promise of the call runAgent(agent, store) is fulfilled
Returned(agent) == agentStatus[agent] \in {"completed", "failed"}

\* the first fulfilled call of a group is enough
JoinedAny(stage) == \E k \in 1..Len(stage) : Returned(stage[k])

\* await Promise.all(group.map(...)), or the await of one call, is over
Joined(stage) == \A k \in 1..Len(stage) : Returned(stage[k])

\* Promise.all rejects with the first rejected call
Rejected(stage) == \E k \in 1..Len(stage) : agentStatus[stage[k]] = "escaped"

\* the runs start without --feature; the store is the one createStore gives,
\* of a single package without a state library or of a monorepo with one
InitPipeline ==
  /\ files = <<>>
  /\ \E detected \in BOOLEAN, mono \in BOOLEAN :
       config = [packages |-> IF mono THEN <<"web", "api">> ELSE <<"web">>,
                 conventionPaths |-> <<>>, aliases |-> <<>>,
                 migration |-> [NoMigration EXCEPT !.detected = detected],
                 stateManagement |-> IF mono THEN <<[type |-> "pinia", storeDir |-> <<"s", "t", "o", "r", "e">>]>>
                                     ELSE <<>>]
  /\ importGraph = <<>>
  /\ gitChurns = <<>>
  /\ skipGit \in BOOLEAN
  /\ features = <<>>
  /\ rawImports = <<>>
  /\ resolutions = <<>>
  /\ fileMetrics = <<>>
  /\ impactNodes = <<>>
  /\ impactScored = <<>>
  /\ fileNodes = <<>>
  /\ featureScores = <<>>
  /\ hashIndex = <<>>
  /\ matches = <<>>
  /\ duplications = <<>>
  /\ scanned = 0
  /\ loopI = 1
  /\ loopJ = 2
  /\ featureMap = <<>>
  /\ fileToFeature = <<>>
  /\ agentStatus = [a \in Agents |-> "pending"]
  /\ microtasks = <<>>
  /\ writers = {}
  /\ pc = "phase1"

\* runAgent(agent, store) up to its await: no agent awaits anything, so the
\* whole of agent.run has run when the call gives way
CallRunAgent ==
  /\ \E k \in 1..Len(Stage(pc, config)) :
       LET agent == Stage(pc, config)[k]
       IN /\ agentStatus[agent] = "pending"
          /\ \A n \in 1..(k - 1) : agentStatus[Stage(pc, config)[n]] # "pending"
          /\ \E outcome \in Outcomes(agent, writers) :
               /\ agentStatus' = [agentStatus EXCEPT ![agent] = outcome.status]
               /\ writers' = writers \cup {<<agent, c>> : c \in outcome.written}
          /\ microtasks' = Append(microtasks, agent)
  /\ UNCHANGED <<storeInputs, indexerVars, grouperVars, impactVars, qualityVars,
                 duplicationVars, pc>>

\* the rest of runAgent, once main has given way at its await
ResumeRunAgent ==
  /\ microtasks # <<>>
  /\ \A k \in 1..Len(Stage(pc, config)) : agentStatus[Stage(pc, config)[k]] # "pending"
  /\ agentStatus' = [agentStatus EXCEPT ![Head(microtasks)] = Resumed(@)]
  /\ microtasks' = Tail(microtasks)
  /\ UNCHANGED <<storeInputs, indexerVars, grouperVars, impactVars, qualityVars,
                 duplicationVars, writers, pc>>

\* main after an await: on to the next phase, or out through main().catch
ResumeMain ==
  /\ Stage(pc, config) # <<>>
  /\ Joined(Stage(pc, config)) \/ Rejected(Stage(pc, config))
  /\ pc' = IF Rejected(Stage(pc, config)) THEN "exit" ELSE NextPosition(pc)
  /\ UNCHANGED <<storeInputs, indexerVars, grouperVars, impactVars, qualityVars,
                 duplicationVars, pipelineVars>>

\* if (!skipGit) store.gitChurns = getFileChurns(rootDir, 500)
LoadGitHistory ==
  /\ pc = "git"
  /\ IF skipGit
     THEN UNCHANGED <<gitChurns, writers>>
     ELSE /\ \E c \in 0..1 :
               gitChurns' = IF c = 0 THEN <<>>
                            ELSE <<[file |-> CartTarget, commitCount |-> c, coChangedWith |-> <<>>]>>
          /\ writers' = writers \cup {<<"main", "gitChurns">>}
  /\ pc' = NextPosition(pc)
  /\ UNCHANGED <<files, config, importGraph, skipGit, indexerVars, grouperVars, impactVars,
                 qualityVars, duplicationVars, agentStatus, microtasks>>

\* the summary main writes to the console at its end
LogSummary ==
  /\ pc = "summary"
  /\ pc' = NextPosition(pc)
  /\ UNCHANGED <<storeInputs, indexerVars, grouperVars, impactVars, qualityVars,
                 duplicationVars, pipelineVars>>

NextPipeline == CallRunAgent \/ ResumeRunAgent \/ ResumeMain \/ LoadGitHistory \/ LogSummary

SpecPipeline == InitPipeline /\ [][NextPipeline]_vars

\* the event loop runs every task that is ready
SpecPipelineLive == SpecPipeline /\ WF_vars(NextPipeline)

\* ------------------------------------------------------------------------
\* Properties of the pipeline
\* ------------------------------------------------------------------------

\* the agents of <<agent, collection>> pairs in writers, for one collection
WritersOf(stage, collection) ==
  {a \in Range(stage) : <<a, collection>> \in writers}

Collections == {w[2] : w \in writers}

\* C23: within each of Group A, Group B and Group C no store collection is
\* written or mutated by more than one agent of the group.
C23_DisjointWrites ==
    \A stage \in {groupA, groupB, groupC(config)} :
      \A c \in Collections : Cardinality(WritersOf(stage, c)) <= 1

Called(agent) == agentStatus[agent] # "pending"

AllReturned == \A p \in {"phase1", "phase2", "groupA", "groupB", "groupC", "phase4"} :
                 Joined(Stage(p, config))

\* C24: once the run of an agent has failed, the pipeline still comes to its
\* end with every agent of every phase, the siblings of the failed agent and
\* the report generation among them, called and returned.
C24_FailureIsolated ==
  (Thrown # {}) ~> (pc = "done" /\ AllReturned)

C24_Witness ==
  /\ pc = "done"
  /\ agentStatus["bugRiskAnalyzer"] = "failed"
  /\ agentStatus["qualityAnalyzer"] = "completed"
  /\ agentStatus["featureFlagAnalyzer"] = "completed"
  /\ agentStatus["recommendationAgent"] = "completed"

====
